---- MODULE Spec2Model ----
(***************************************************************************)
(* tg-analytics: the channel collector (src/data/collector.py), the LLM    *)
(* analysis service (src/analysis/llm_service.py) and the conversation     *)
(* handlers of the bot (src/bot/bot.py), over the tables of                *)
(* src/database/models.py.                                                 *)
(*                                                                         *)
(* Conventions.  Python's None is the empty set and a present value x is   *)
(* {x} wherever a column or a dictionary entry is optional.  A text is a   *)
(* sequence of lexemes: the characters the code looks at ("@", " ", "-",   *)
(* "_", "/", digits) are lexemes of their own, any other run of letters is *)
(* one opaque lexeme.  The Russian phrases of the bot are transliterated   *)
(* (Да = "Da", Нет = "Net", ...).                                          *)
(***************************************************************************)
EXTENDS Integers, Sequences, FiniteSets, TLC

VARIABLES
    db,         \* the committed rows of every table (models.py)
    now,        \* datetime.utcnow(), in whole days
    tg,         \* the Telegram side: the channel's history and its replies
    client,     \* TelegramDataCollector.client
    conv,       \* ConversationHandler: the state of each user's conversation
    user_data,  \* context.user_data of each user
    last        \* the operation handled last: its input, calls and outcome

vars == <<db, now, tg, client, conv, user_data, last>>

None == {}
Some(x) == {x}
TheValue(o) == CHOOSE x \in o : TRUE

Min(a, b) == IF a <= b THEN a ELSE b

(***************************************************************************)
(* Bounds of the model.                                                    *)
(***************************************************************************)
MaxMsgs == 2        \* messages in the channel history
MaxPosts == 2       \* get_posts runs while fewer Post rows are stored
MaxComments == 2    \* get_comments runs while fewer Comment rows are stored
MaxTime == 1        \* days the clock advances
MaxRows == 2        \* the service runs while its tables hold fewer rows
MaxDays == 2        \* days a content plan is asked for
MaxBotRows == 1     \* the bot is confirmed while the service's tables hold fewer rows

(***************************************************************************)
(* The store.  Every table is the sequence of its committed rows in        *)
(* insertion order; the integer primary key of a row is its position       *)
(* (nothing is ever deleted).                                              *)
(***************************************************************************)
EmptyDb ==
    [ users |-> <<>>, channels |-> <<>>, posts |-> <<>>, comments |-> <<>>,
      reactions |-> <<>>, analyses |-> <<>>, content_plans |-> <<>>,
      surveys |-> <<>> ]

\* A session's unit of work: db.add(obj) appends a pending object.
Add(pending, table, obj) == Append(pending, [table |-> table, obj |-> obj])

\* Column defaults applied at INSERT: created_at = datetime.utcnow,
\* status = "draft" where the object leaves it unset.
WithDefaults(table, obj, time) ==
    LET timed == [c \in (DOMAIN obj) \cup {"created_at"} |->
                    IF c = "created_at" THEN time ELSE obj[c]]
    IN  IF table \in {"content_plans", "surveys"} /\ "status" \notin DOMAIN obj
        THEN [c \in (DOMAIN timed) \cup {"status"} |->
                IF c = "status" THEN "draft" ELSE timed[c]]
        ELSE timed

\* INSERT of one object: the primary key is assigned by the table.
InsertRow(store, table, obj, time) ==
    LET id  == Len(store[table]) + 1
        def == WithDefaults(table, obj, time)
        row == [c \in (DOMAIN def) \cup {"id"} |-> IF c = "id" THEN id ELSE def[c]]
    IN  [store EXCEPT ![table] = Append(@, row)]

RECURSIVE Flush(_, _, _)
Flush(store, pending, time) ==
    IF pending = <<>> THEN store
    ELSE Flush(InsertRow(store, Head(pending).table, Head(pending).obj, time),
               Tail(pending), time)

\* UNIQUE constraints of the schema: users.tg_id and channels.tg_id.
\* posts.tg_id is declared nullable=False only.
UniqueOk(store) ==
    /\ \A i, j \in 1..Len(store.users) :
          store.users[i].tg_id = store.users[j].tg_id => i = j
    /\ \A i, j \in 1..Len(store.channels) :
          store.channels[i].tg_id = store.channels[j].tg_id => i = j

\* db.commit(): all pending objects are inserted in one transaction, or the
\* commit raises and none is.
CommitOk(store, pending, time) == UniqueOk(Flush(store, pending, time))
Commit(store, pending, time) ==
    IF CommitOk(store, pending, time) THEN Flush(store, pending, time) ELSE store

(***************************************************************************)
(* The Telegram side.  One channel, "testchan", whose entity id is         *)
(* TgChannelId; its history (newest first) and the replies threaded to     *)
(* the message with id 1.                                                  *)
(***************************************************************************)
TgChannelId == 1
TgUsername == <<"testchan">>

Emoji == [reaction |-> [emoticon |-> <<"thumbsup">>], count |-> 3]
CustomEmoji == [reaction |-> [document_id |-> <<"5">>], count |-> 1]
PaidReaction == [reaction |-> [repr |-> <<"ReactionPaid()">>], count |-> 2]

\* (message.message, message.reactions) of the messages of a history.
MessageShapes ==
    { [message |-> None,              reactions |-> None],
      [message |-> Some(<<>>),        reactions |-> Some(<<Emoji>>)],
      [message |-> Some(<<"post">>),  reactions |-> None],
      [message |-> Some(<<"post">>),  reactions |-> Some(<<Emoji, CustomEmoji, PaidReaction>>)] }

\* reply.from_id resolves to a User, to another kind of entity, or not at all.
UserPeer == [kind |-> "User", id |-> 7]
ChannelPeer == [kind |-> "Channel", id |-> 9]
LostPeer == [kind |-> "unresolvable", id |-> 8]

ReplyShapes ==
    { [message |-> Some(<<>>),         from_id |-> Some(UserPeer),    reactions |-> None],
      [message |-> Some(<<"reply">>),  from_id |-> None,              reactions |-> Some(<<Emoji>>)],
      [message |-> Some(<<"reply">>),  from_id |-> Some(UserPeer),    reactions |-> None],
      [message |-> Some(<<"reply">>),  from_id |-> Some(ChannelPeer), reactions |-> None],
      [message |-> Some(<<"reply">>),  from_id |-> Some(LostPeer),    reactions |-> Some(<<Emoji>>)] }

MaxReplies == 1     \* replies threaded to a post

SeqsUpTo(S, n) == UNION { [1..k -> S] : k \in 0..n }

\* Message ids count down from the newest; dates follow the ids.
Numbered(shapes, first) ==
    [i \in 1..Len(shapes) |->
        [c \in (DOMAIN shapes[i]) \cup {"id", "date"} |->
            IF c = "id" THEN first + Len(shapes) - i
            ELSE IF c = "date" THEN first + Len(shapes) - i
            ELSE shapes[i][c]]]

(***************************************************************************)
(* TelegramDataCollector                                                   *)
(***************************************************************************)
\* A test for a missing body only.
FalsyNone(text) == text = None

\* `not message.message`: the body is None or the empty string.
Falsy(text) == text = None \/ text = Some(<<>>)

\* entity.id of a model object: set by the flush, None before it.
IdOf(obj) == IF "id" \in DOMAIN obj THEN Some(obj.id) ELSE None

\* A label for reactions with an emoji code only.
ReactionTypeEmoticonOnly(reaction) ==
    IF "emoticon" \in DOMAIN reaction THEN reaction.emoticon ELSE <<>>

\* The label of one reaction entry (lines 217-222).
ReactionType(reaction) ==
    IF "emoticon" \in DOMAIN reaction THEN reaction.emoticon
    ELSE IF "document_id" \in DOMAIN reaction THEN <<"custom_">> \o reaction.document_id
    ELSE reaction.repr

RECURSIVE AddReactions(_, _, _, _)
AddReactions(results, cls, obj, pending) ==
    IF results = <<>> THEN pending
    ELSE AddReactions(Tail(results), cls, obj,
            Add(pending, "reactions",
                [ reaction_type |-> ReactionType(Head(results).reaction),
                  count |-> Head(results).count,
                  post_id |-> IF cls = "Post" THEN IdOf(obj) ELSE None,
                  comment_id |-> IF cls = "Comment" THEN IdOf(obj) ELSE None ]))

\* _save_reactions(message, entity, db_session); entity is the object just
\* handed to db.add, which no flush has given an id yet.
SaveReactions(message, cls, obj, pending) ==
    IF message.reactions # None
    THEN AddReactions(TheValue(message.reactions), cls, obj, pending)
    ELSE pending

\* Post(tg_id=message.id, channel_id=entity.id, content=message.message, ...)
NewPost(message, entity_id) ==
    [ tg_id |-> message.id, channel_id |-> entity_id,
      content |-> TheValue(message.message), posted_at |-> message.date ]

\* The loop of get_posts over history.messages (lines 95-121): the pending
\* objects of the session after the loop.
RECURSIVE PostsPending(_, _, _)
PostsPending(messages, entity_id, pending) ==
    IF messages = <<>> THEN pending
    ELSE LET message == Head(messages) IN
         IF Falsy(message.message)
         THEN PostsPending(Tail(messages), entity_id, pending)
         ELSE LET post == NewPost(message, entity_id) IN
              PostsPending(Tail(messages), entity_id,
                  SaveReactions(message, "Post", post, Add(pending, "posts", post)))

\* The list get_posts returns: one record per non-empty message.
RECURSIVE PostsReturned(_)
PostsReturned(messages) ==
    IF messages = <<>> THEN <<>>
    ELSE IF Falsy(Head(messages).message) THEN PostsReturned(Tail(messages))
    ELSE <<[id |-> Head(messages).id, text |-> TheValue(Head(messages).message)]>>
            \o PostsReturned(Tail(messages))

\* GetHistoryRequest(peer, limit): the newest `limit` messages.
GetHistory(limit) == SubSeq(tg.history, 1, Min(limit, Len(tg.history)))

\* client.get_entity(reply.from_id) inside the try of lines 157-176: the
\* user_info dictionary, None when the sender is absent, is no User, or the
\* lookup raised.
UserInfo(reply) ==
    IF reply.from_id = None THEN None
    ELSE LET peer == TheValue(reply.from_id) IN
         IF peer.kind = "User" THEN Some([id |-> peer.id]) ELSE None

\* Comment(tg_id=reply.id, post_id=post_id, user_id=user_info["id"] ...)
NewComment(reply, post_id) ==
    [ tg_id |-> reply.id, post_id |-> post_id,
      user_id |-> IF UserInfo(reply) # None
                  THEN Some(TheValue(UserInfo(reply)).id) ELSE None,
      content |-> TheValue(reply.message), commented_at |-> reply.date ]

\* db.merge(UserModel(tg_id=user.id, ...)): the object carries no primary
\* key, so the merge finds no row to load and schedules an INSERT.
Merge(pending, table, obj) == Add(pending, table, obj)

\* The loop of get_comments over the replies (lines 150-199).
RECURSIVE CommentsPending(_, _, _)
CommentsPending(replies, post_id, pending) ==
    IF replies = <<>> THEN pending
    ELSE LET reply == Head(replies) IN
         IF Falsy(reply.message)
         THEN CommentsPending(Tail(replies), post_id, pending)
         ELSE LET merged  == IF UserInfo(reply) # None
                             THEN Merge(pending, "users",
                                        [tg_id |-> TheValue(UserInfo(reply)).id])
                             ELSE pending
                  comment == NewComment(reply, post_id)
              IN  CommentsPending(Tail(replies), post_id,
                      SaveReactions(reply, "Comment", comment,
                                    Add(merged, "comments", comment)))

RECURSIVE CommentsReturned(_, _)
CommentsReturned(replies, post_id) ==
    IF replies = <<>> THEN <<>>
    ELSE IF Falsy(Head(replies).message) THEN CommentsReturned(Tail(replies), post_id)
    ELSE <<[id |-> Head(replies).id, post_id |-> post_id,
            user |-> UserInfo(Head(replies))]>>
            \o CommentsReturned(Tail(replies), post_id)

\* client.get_messages(entity, ids=post_id): the message, or None.
HasMessage(post_id) == \E i \in 1..Len(tg.history) : tg.history[i].id = post_id

\* client.get_messages(entity, reply_to=message.id, limit=limit)
GetReplies(post_id, limit) ==
    IF post_id = 1 THEN SubSeq(tg.replies, 1, Min(limit, Len(tg.replies))) ELSE <<>>

Usernames == {TgUsername, <<"nochan">>}

\* No operation is being handled: the outcome of the last one was taken.
Idle == [op |-> "idle", raised |-> FALSE]

\* The caller takes the outcome of the operation it called.
Forget ==
    /\ last # Idle
    /\ last' = Idle
    /\ UNCHANGED <<db, now, tg, client, conv, user_data>>

\* Whether a request of the client can be served.
Connected == client = "connected"

\* self.client.get_entity(channel_username), the first request of every
\* fetch: the exception it raises ("" for none) and whether a request was
\* sent to Telegram.  Without start() the client is None and the attribute
\* access fails; a disconnected client refuses to send; a client whose
\* sign-in failed sends the request and is refused; a signed-in client
\* resolves the channel or finds no such username.
GetEntity(channel_username) ==
    CASE client = "none" -> [exc |-> "AttributeError", sent |-> FALSE]
      [] client = "disconnected" -> [exc |-> "ConnectionError", sent |-> FALSE]
      [] client = "unauthorized" -> [exc |-> "RPCError", sent |-> TRUE]
      [] OTHER -> [exc |-> IF channel_username = TgUsername THEN "" ELSE "ValueError",
                   sent |-> TRUE]

\* start(): the client object is created, then client.start(phone) signs in
\* or raises.  Every caller starts a collector it has just constructed.
Start(ok) ==
    /\ last = Idle
    /\ client = "none"
    /\ client' = IF ok THEN "connected" ELSE "unauthorized"
    /\ last' = [op |-> "start", raised |-> ~ok]
    /\ UNCHANGED <<db, now, tg, conv, user_data>>

\* stop() without the test of line 46: disconnect() is called on whatever
\* self.client is.
StopUnguarded ==
    /\ last = Idle
    /\ client' = IF client = "none" THEN "none" ELSE "disconnected"
    /\ last' = [op |-> "stop", raised |-> client = "none", disconnected |-> client # "none",
                before |-> client]
    /\ UNCHANGED <<db, now, tg, conv, user_data>>

\* stop(): disconnects when a client object exists.  `before` is the client
\* the collector had when stop() was called.
Stop ==
    /\ last = Idle
    /\ client' = IF client = "none" THEN "none" ELSE "disconnected"
    /\ last' = [op |-> "stop", raised |-> FALSE, disconnected |-> client # "none",
                before |-> client]
    /\ UNCHANGED <<db, now, tg, conv, user_data>>

\* get_channel_info(channel_username): the dictionary of the channel.
GetChannelInfo(channel_username) ==
    /\ last = Idle
    /\ last' = [ op |-> "get_channel_info",
                 raised |-> GetEntity(channel_username).exc # "",
                 exc |-> GetEntity(channel_username).exc,
                 sent |-> GetEntity(channel_username).sent,
                 returned |-> IF GetEntity(channel_username).exc = ""
                              THEN <<[id |-> TgChannelId, username |-> channel_username]>>
                              ELSE <<>> ]
    /\ UNCHANGED <<db, now, tg, client, conv, user_data>>

\* get_posts(channel_username, limit)
GetPosts(channel_username, limit) ==
    /\ last = Idle
    /\ Len(db.posts) < MaxPosts
    /\ LET resolved == Connected /\ channel_username = TgUsername
           messages == GetHistory(limit)
           pending  == PostsPending(messages, TgChannelId, <<>>)
       IN  IF ~resolved
           THEN /\ db' = db
                /\ last' = [op |-> "get_posts", raised |-> TRUE, returned |-> <<>>,
                            exc |-> GetEntity(channel_username).exc,
                            sent |-> GetEntity(channel_username).sent]
           ELSE /\ db' = Commit(db, pending, now)
                /\ last' = [op |-> "get_posts", exc |-> "", sent |-> TRUE,
                            raised |-> ~CommitOk(db, pending, now),
                            returned |-> IF CommitOk(db, pending, now)
                                         THEN PostsReturned(messages) ELSE <<>>]
    /\ UNCHANGED <<now, tg, client, conv, user_data>>

\* get_comments(channel_username, post_id, limit)
GetComments(channel_username, post_id, limit) ==
    /\ last = Idle
    /\ Len(db.comments) < MaxComments
    /\ LET resolved == Connected /\ channel_username = TgUsername
           replies  == IF post_id # 0 /\ HasMessage(post_id)
                       THEN GetReplies(post_id, limit) ELSE <<>>
           pending  == CommentsPending(replies, post_id, <<>>)
       IN  IF ~resolved
           THEN /\ db' = db
                /\ last' = [op |-> "get_comments", raised |-> TRUE, returned |-> <<>>,
                            channel_username |-> channel_username, post_id |-> post_id,
                            limit |-> limit, exc |-> GetEntity(channel_username).exc,
                            sent |-> GetEntity(channel_username).sent]
           ELSE /\ db' = Commit(db, pending, now)
                /\ last' = [op |-> "get_comments",
                            channel_username |-> channel_username, post_id |-> post_id,
                            limit |-> limit, sent |-> TRUE,
                            exc |-> IF CommitOk(db, pending, now) THEN "" ELSE "IntegrityError",
                            raised |-> ~CommitOk(db, pending, now),
                            returned |-> IF CommitOk(db, pending, now)
                                         THEN CommentsReturned(replies, post_id)
                                         ELSE <<>>]
    /\ UNCHANGED <<now, tg, client, conv, user_data>>

\* Time passes between operations.
Tick ==
    /\ last = Idle
    /\ now < MaxTime
    /\ now' = now + 1
    /\ UNCHANGED <<db, tg, client, conv, user_data, last>>

NextCollector ==
    \/ \E ok \in BOOLEAN : Start(ok)
    \/ Stop
    \/ \E u \in Usernames : GetChannelInfo(u)
    \/ \E u \in Usernames, limit \in {1, MaxMsgs} : GetPosts(u, limit)
    \/ \E u \in Usernames, p \in 0..(MaxMsgs + 1), limit \in {MaxReplies} :
          GetComments(u, p, limit)
    \/ Forget

Users == {"u1"}

\* context.user_data of a user who has not been asked anything yet.
NoUserData == [channel_username |-> None, post_id |-> None, pending_action |-> None]

InitCollector ==
    /\ db = EmptyDb
    /\ now = 0
    /\ tg \in [ history : { Numbered(h, 1) : h \in SeqsUpTo(MessageShapes, MaxMsgs) \ {<<>>} },
                replies : { Numbered(r, 11) : r \in SeqsUpTo(ReplyShapes, MaxReplies) } ]
    /\ client = "none"
    /\ conv = [u \in Users |-> "END"]
    /\ user_data = [u \in Users |-> NoUserData]
    /\ last = Idle

SpecCollector == InitCollector /\ [][NextCollector]_vars

(***************************************************************************)
(* get_comments over a thread of several replies: the history is one post  *)
(* with a body, and the thread below it holds up to MaxThread replies.     *)
(***************************************************************************)
MaxThread == 2      \* replies of the thread

InitThread ==
    /\ db = EmptyDb
    /\ now = 0
    /\ tg \in [ history : {Numbered(<<[message |-> Some(<<"post">>), reactions |-> None]>>, 1)},
                replies : { Numbered(r, 11) : r \in SeqsUpTo(ReplyShapes, MaxThread) \ {<<>>} } ]
    /\ client = "none"
    /\ conv = [u \in Users |-> "END"]
    /\ user_data = [u \in Users |-> NoUserData]
    /\ last = Idle

NextThread ==
    \/ \E ok \in BOOLEAN : Start(ok)
    \/ \E limit \in 1..MaxThread : GetComments(TgUsername, 1, limit)
    \/ Forget

SpecThread == InitThread /\ [][NextThread]_vars

(***************************************************************************)
(* Python values.  A JSON value is tagged with its Python type; the keys   *)
(* of a dict keep their insertion order.                                   *)
(***************************************************************************)
Dict(items) == [t |-> "dict", items |-> items]
List(items) == [t |-> "list", items |-> items]
Str(s) == [t |-> "str", s |-> s]
Bool(b) == [t |-> "bool", b |-> b]
KV(k, v) == [k |-> k, v |-> v]

HasKey(d, k) == d.t = "dict" /\ \E i \in 1..Len(d.items) : d.items[i].k = k
Get(d, k) == d.items[CHOOSE i \in 1..Len(d.items) : d.items[i].k = k].v

\* A text and what json.loads makes of it: None when it is no JSON.
Text(raw, json) == [raw |-> raw, json |-> json]
IsJson(text) == text.json # None
JsonLoads(text) == TheValue(text.json)
JsonDumps(value) == Text(<<"json.dumps">>, Some(value))

Digits == <<"0", "1", "2", "3", "4", "5", "6", "7", "8", "9">>
IsDigit(c) == \E i \in 1..10 : Digits[i] = c
DigitValue(c) == (CHOOSE i \in 1..10 : Digits[i] = c) - 1

\* str.strip(): whitespace is removed at both ends.
RECURSIVE Strip(_)
Strip(text) ==
    IF text = <<>> THEN <<>>
    ELSE IF Head(text) = " " THEN Strip(Tail(text))
    ELSE IF text[Len(text)] = " " THEN Strip(SubSeq(text, 1, Len(text) - 1))
    ELSE text

RECURSIVE DigitsValue(_, _)
DigitsValue(text, acc) ==
    IF text = <<>> THEN acc
    ELSE DigitsValue(Tail(text), 10 * acc + DigitValue(Head(text)))

\* int(text): None stands for ValueError.
PyInt(text) ==
    LET t      == Strip(text)
        signed == t # <<>> /\ Head(t) \in {"-", "+"}
        digits == IF signed THEN Tail(t) ELSE t
    IN  IF digits = <<>> \/ \E i \in 1..Len(digits) : ~IsDigit(digits[i])
        THEN None
        ELSE Some(IF signed /\ Head(t) = "-"
                  THEN 0 - DigitsValue(digits, 0) ELSE DigitsValue(digits, 0))

\* text.split(sep)
RECURSIVE Split(_, _, _)
Split(text, sep, current) ==
    IF text = <<>> THEN <<current>>
    ELSE IF Head(text) = sep THEN <<current>> \o Split(Tail(text), sep, <<>>)
    ELSE Split(Tail(text), sep, Append(current, Head(text)))

(***************************************************************************)
(* The OpenAI side: what openai.ChatCompletion.acreate answers.  It        *)
(* raises, or it returns a message whose content is a text or None.        *)
(***************************************************************************)
ProviderError == [kind |-> "raise", content |-> None]
NullContent == [kind |-> "message", content |-> None]
Answer(text) == [kind |-> "message", content |-> Some(text)]
\* No request was sent.
NoAnswer == [kind |-> "none", content |-> None]

NotJson == Answer(Text(<<"Sorry, no JSON">>, None))
JsonList == Answer(Text(<<"[]">>, Some(List(<<>>))))

GoodAnalysis ==
    Answer(Text(<<"{analysis}">>,
        Some(Dict(<<KV(<<"main_topics">>, List(<<Str(<<"news">>)>>)),
                    KV(<<"audience_sentiment">>, Str(<<"positive">>))>>))))

DayKey(n) == <<"day", "_", n>>
DayPlan(title) ==
    Dict(<<KV(<<"title">>, Str(<<title>>)), KV(<<"description">>, Str(<<"about">>))>>)
Untitled == Dict(<<KV(<<"description">>, Str(<<"about">>))>>)

PlanAnswer(name, items) == Answer(Text(<<name>>, Some(Dict(items))))

\* Plans of the model: one or two consecutive days, a day out of sequence,
\* a key that names no day, an entry without a title.
PlanAnswers ==
    { PlanAnswer("plan1", <<KV(DayKey("1"), DayPlan("a"))>>),
      PlanAnswer("plan2", <<KV(DayKey("1"), DayPlan("a")), KV(DayKey("2"), DayPlan("b"))>>),
      PlanAnswer("late",  <<KV(DayKey("3"), DayPlan("c"))>>),
      PlanAnswer("dayx",  <<KV(DayKey("1"), DayPlan("a")), KV(DayKey("x"), DayPlan("b"))>>),
      PlanAnswer("bare",  <<KV(DayKey("1"), DayPlan("a")), KV(DayKey("2"), Untitled)>>) }

GoodPostAnalysis ==
    Answer(Text(<<"{post analysis}">>,
        Some(Dict(<<KV(<<"engagement_level">>, Str(<<"high">>))>>))))

GoodSurvey ==
    Answer(Text(<<"{survey}">>,
        Some(Dict(<<KV(<<"title">>, Str(<<"Survey">>)),
                    KV(<<"description">>, Str(<<"Tell us">>)),
                    KV(<<"questions">>, List(<<Str(<<"q1">>)>>))>>))))
NoQuestions ==
    Answer(Text(<<"{survey without questions}">>,
        Some(Dict(<<KV(<<"title">>, Str(<<"Survey">>)),
                    KV(<<"description">>, Str(<<"Tell us">>))>>))))

AnalysisAnswers == {ProviderError, NullContent, NotJson, GoodAnalysis}
PlanReplies == {ProviderError, NullContent, NotJson, JsonList} \cup PlanAnswers
PostAnswers == {ProviderError, NullContent, NotJson, GoodPostAnalysis}
SurveyAnswers == {ProviderError, NotJson, JsonList, GoodSurvey, NoQuestions}

\* The store answers, or a query of the call raises, or its commit does.
Faults == {"none", "query", "commit"}

(***************************************************************************)
(* LLMAnalysisService                                                      *)
(***************************************************************************)
Return(value) == [kind |-> "return", value |-> value]
Raise(exc) == [kind |-> "raise", value |-> Str(<<exc>>)]

\* {"error": str(e)}
ErrorDict(message) == Dict(<<KV(<<"error">>, Str(<<message>>))>>)

PostLimit == 50
CommentCap == 10

\* order_by(Post.posted_at.desc()): rows of one posted_at stay in table order.
RECURSIVE InsertDesc(_, _)
InsertDesc(sorted, row) ==
    IF sorted = <<>> THEN <<row>>
    ELSE IF Head(sorted).posted_at >= row.posted_at
         THEN <<Head(sorted)>> \o InsertDesc(Tail(sorted), row)
         ELSE <<row>> \o sorted

RECURSIVE OrderByPostedAtDesc(_)
OrderByPostedAtDesc(rows) ==
    IF rows = <<>> THEN <<>>
    ELSE InsertDesc(OrderByPostedAtDesc(SubSeq(rows, 1, Len(rows) - 1)), rows[Len(rows)])

Limit(rows, n) == SubSeq(rows, 1, Min(n, Len(rows)))

\* The latest posts of every channel.
LatestPostsAnyChannel(store, channel_id) ==
    Limit(OrderByPostedAtDesc(store.posts), PostLimit)

\* Lines 44-50: the latest posts of the channel.  query(...).filter(...) is
\* SelectSeq: the rows of a table that match, in table order.
LatestPosts(store, channel_id) ==
    LET OfChannel(post) == post.channel_id = channel_id
    IN  Limit(OrderByPostedAtDesc(SelectSeq(store.posts, OfChannel)), PostLimit)

CommentsOf(store, post_id) ==
    LET OfPost(comment) == comment.post_id = post_id
    IN  SelectSeq(store.comments, OfPost)

ReactionsOf(store, post_id) ==
    LET OfPost(reaction) == reaction.post_id = Some(post_id)
    IN  SelectSeq(store.reactions, OfPost)

\* post_data of lines 73-95.
PostData(store, post, cap) ==
    [ id |-> post.tg_id, content |-> post.content,
      comments_count |-> Len(CommentsOf(store, post.id)),
      comments |-> Limit(CommentsOf(store, post.id), cap),
      reactions |-> ReactionsOf(store, post.id) ]

PostsData(store, posts) ==
    [i \in 1..Len(posts) |-> PostData(store, posts[i], CommentCap)]

\* Analysis(channel_id=..., analysis_type="channel_content", content=...)
NewAnalysis(channel_id, post_id, analysis_type, data) ==
    [ channel_id |-> channel_id, post_id |-> post_id,
      analysis_type |-> analysis_type, content |-> JsonDumps(data) ]

\* A fallback that rejects the text instead of wrapping it.
ParseOrReject(text) ==
    IF IsJson(text) THEN JsonLoads(text)
    ELSE Dict(<<KV(<<"error">>, Str(<<"Failed to parse response as JSON">>))>>)

\* Lines 140-144: the parsed answer, or the raw text under the key "analysis".
ParseOrWrap(text) ==
    IF IsJson(text) THEN JsonLoads(text)
    ELSE Dict(<<KV(<<"analysis">>, Str(text.raw))>>)

\* A call whose request is sent a second time when the provider fails.
CallWithRetry(op, arg, llm, prompt, answer, out) ==
    [ op |-> op, arg |-> arg, llm |-> IF answer.kind = "raise" THEN llm + 1 ELSE llm,
      prompt |-> prompt, answer |-> answer, out |-> out ]

\* One call of an operation, as its caller sees it: the number of requests
\* it sent to the model, the prompt, the answer it got and its outcome.
Call(op, arg, llm, prompt, answer, out) ==
    [op |-> op, arg |-> arg, llm |-> llm, prompt |-> prompt, answer |-> answer, out |-> out]

Done(store, calls) == [db |-> store, calls |-> calls]

\* analyze_channel_content(channel_id)
AnalyzeChannelContent(store, channel_id, answer, fault, time) ==
    LET name  == "analyze_channel_content"
        posts == LatestPosts(store, channel_id)
        prompt == PostsData(store, posts)
    IN  IF fault = "query"
        THEN Done(store, <<Call(name, channel_id, 0, <<>>, NoAnswer, Raise("OperationalError"))>>)
        ELSE IF posts = <<>>
        THEN Done(store, <<Call(name, channel_id, 0, <<>>, NoAnswer,
                                Return(ErrorDict("No posts found for analysis")))>>)
        ELSE IF answer.kind = "raise"
        THEN Done(store, <<Call(name, channel_id, 1, prompt, answer,
                                Return(ErrorDict("ProviderError")))>>)
        ELSE IF answer.content = None
        THEN Done(store, <<Call(name, channel_id, 1, prompt, answer,
                                Return(ErrorDict("TypeError")))>>)
        ELSE LET analysis_data == ParseOrWrap(TheValue(answer.content))
                 pending == Add(<<>>, "analyses",
                                NewAnalysis(Some(channel_id), None, "channel_content",
                                            analysis_data))
             IN  IF fault = "commit" \/ ~CommitOk(store, pending, time)
                 THEN Done(store, <<Call(name, channel_id, 1, prompt, answer,
                                         Return(ErrorDict("OperationalError")))>>)
                 ELSE Done(Commit(store, pending, time),
                           <<Call(name, channel_id, 1, prompt, answer, Return(analysis_data))>>)

\* The oldest channel_content analyses of the channel.
OldestAnalyses(store, channel_id) ==
    LET Matches(a) == a.channel_id = Some(channel_id) /\ a.analysis_type = "channel_content"
        rows == SelectSeq(store.analyses, Matches)
    IN  { rows[i] : i \in { i \in 1..Len(rows) :
                              \A j \in 1..Len(rows) : rows[i].created_at <= rows[j].created_at } }

\* Lines 166-172 and 360-366: the channel_content analyses of the channel
\* that order_by(created_at.desc()).first() may return.  Rows of one
\* created_at are in no defined order, so any of the newest may come first.
LatestAnalyses(store, channel_id) ==
    LET Matches(a) == a.channel_id = Some(channel_id) /\ a.analysis_type = "channel_content"
        rows == SelectSeq(store.analyses, Matches)
    IN  { rows[i] : i \in { i \in 1..Len(rows) :
                              \A j \in 1..Len(rows) : rows[j].created_at <= rows[i].created_at } }

\* The choices of .first(): None when no row matches.
FirstAnalysis(store, channel_id) ==
    IF LatestAnalyses(store, channel_id) = {} THEN {None}
    ELSE { Some(a) : a \in LatestAnalyses(store, channel_id) }

\* Lines 228-229: int(day_key.split("_")[1]); None stands for the IndexError
\* or the ValueError.
DayNum(day_key) ==
    LET parts == Split(day_key, "_", <<>>)
    IN  IF Len(parts) < 2 THEN None ELSE PyInt(parts[2])

\* A plan whose first day is tomorrow.
PlannedDateFromTomorrow(today, day_num) == today + day_num

\* planned_date = today + timedelta(days=day_num-1)
PlannedDate(today, day_num) == today + (day_num - 1)

\* ContentPlan(channel_id=..., title=day_plan["title"], ..., status="draft")
NewContentPlan(channel_id, day_plan, planned_date) ==
    [ channel_id |-> channel_id, title |-> Get(day_plan, <<"title">>),
      description |-> Get(day_plan, <<"description">>),
      planned_date |-> planned_date, content |-> JsonDumps(day_plan),
      status |-> "draft" ]

\* The loop of lines 226-239 over plan_data.items(): the pending rows, and
\* whether an entry raised (the loop stops there).
RECURSIVE PlanPending(_, _, _, _)
PlanPending(items, channel_id, today, pending) ==
    IF items = <<>> THEN [raised |-> FALSE, pending |-> pending]
    ELSE LET day_key  == Head(items).k
             day_plan == Head(items).v
         IN  IF DayNum(day_key) = None
                \/ ~HasKey(day_plan, <<"title">>)
                \/ ~HasKey(day_plan, <<"description">>)
             THEN [raised |-> TRUE, pending |-> pending]
             ELSE PlanPending(Tail(items), channel_id, today,
                     Add(pending, "content_plans",
                         NewContentPlan(channel_id, day_plan,
                             PlannedDate(today, TheValue(DayNum(day_key))))))

\* A parse error that does not carry the text.
ParseErrorBare(text) ==
    Dict(<<KV(<<"error">>, Str(<<"Failed to parse response as JSON">>))>>)

\* Line 221 (and 325, 412): the payload of an answer that is no JSON.
ParseError(text) ==
    Dict(<<KV(<<"error">>, Str(<<"Failed to parse response as JSON">>)),
           KV(<<"raw_response">>, Str(text.raw))>>)

\* generate_content_plan(channel_id, days).  `first` is what the query of
\* lines 166-172 returned, `inline` the answer to the inline analysis and
\* `answer` the answer to the plan prompt.
GenerateContentPlan(store, channel_id, days, first, inline, answer, fault, time) ==
    LET name  == "generate_content_plan"
        inner == AnalyzeChannelContent(store, channel_id, inline, fault, time)
        chain == IF first = None THEN inner.calls ELSE <<>>
        mid   == IF first = None THEN inner.db ELSE store
        analysis_data == IF first = None THEN inner.calls[1].out.value
                         ELSE JsonLoads(TheValue(first).content)
        prompt == [analysis |-> analysis_data, days |-> days]
        Out(llm, out) == <<Call(name, channel_id, llm, prompt, answer, out)>> \o chain
    IN  IF fault = "query"
        THEN Done(store, <<Call(name, channel_id, 0, <<>>, NoAnswer, Raise("OperationalError"))>>)
        ELSE IF answer.kind = "raise"
        THEN Done(mid, Out(1, Return(ErrorDict("ProviderError"))))
        ELSE IF answer.content = None
        THEN Done(mid, Out(1, Return(ErrorDict("TypeError"))))
        ELSE IF ~IsJson(TheValue(answer.content))
        THEN Done(mid, Out(1, Return(ParseError(TheValue(answer.content)))))
        ELSE LET plan_data == JsonLoads(TheValue(answer.content)) IN
             IF plan_data.t # "dict"
             THEN Done(mid, Out(1, Return(ErrorDict("AttributeError"))))
             ELSE LET loop == PlanPending(plan_data.items, channel_id, time, <<>>) IN
                  IF loop.raised
                  THEN Done(mid, Out(1, Return(ErrorDict("KeyError"))))
                  ELSE IF fault = "commit" \/ ~CommitOk(mid, loop.pending, time)
                  THEN Done(mid, Out(1, Return(ErrorDict("OperationalError"))))
                  ELSE Done(Commit(mid, loop.pending, time),
                            Out(1, Return(Dict(<<KV(<<"success">>, Bool(TRUE)),
                                                 KV(<<"content_plan">>, plan_data)>>))))

\* A lookup by the Telegram id of the message.
FindPostByTgId(store, post_id) ==
    LET ByTgId(post) == post.tg_id = post_id
        rows == SelectSeq(store.posts, ByTgId)
    IN  IF rows = <<>> THEN None ELSE Some(rows[1])

\* Line 254: query(Post).filter(Post.id == post_id).first()
FindPost(store, post_id) ==
    LET ById(post) == post.id = post_id
        rows == SelectSeq(store.posts, ById)
    IN  IF rows = <<>> THEN None ELSE Some(rows[1])

\* analyze_post_performance(post_id)
AnalyzePostPerformance(store, post_id, answer, fault, time) ==
    LET name == "analyze_post_performance"
        post == FindPost(store, post_id)
        prompt == PostData(store, TheValue(post), Len(store.comments))
        Out(llm, out) == <<Call(name, post_id, llm, IF llm = 0 THEN <<>> ELSE prompt,
                              IF llm = 0 THEN NoAnswer ELSE answer, out)>>
    IN  IF fault = "query"
        THEN Done(store, Out(0, Raise("OperationalError")))
        ELSE IF post = None
        THEN Done(store, Out(0, Return(ErrorDict("Post not found"))))
        ELSE IF answer.kind = "raise"
        THEN Done(store, Out(1, Return(ErrorDict("ProviderError"))))
        ELSE IF answer.content = None
        THEN Done(store, Out(1, Return(ErrorDict("TypeError"))))
        ELSE IF ~IsJson(TheValue(answer.content))
        THEN Done(store, Out(1, Return(ParseError(TheValue(answer.content)))))
        ELSE LET analysis_data == JsonLoads(TheValue(answer.content))
                 pending == Add(<<>>, "analyses",
                                NewAnalysis(None, Some(post_id), "post_performance",
                                            analysis_data))
             IN  IF fault = "commit" \/ ~CommitOk(store, pending, time)
                 THEN Done(store, Out(1, Return(ErrorDict("OperationalError"))))
                 ELSE Done(Commit(store, pending, time), Out(1, Return(analysis_data)))

\* A survey that is published at once.
NewSurveyActive(channel_id, survey_data) ==
    [ channel_id |-> channel_id, title |-> Get(survey_data, <<"title">>),
      description |-> Get(survey_data, <<"description">>),
      questions |-> JsonDumps(Get(survey_data, <<"questions">>)),
      status |-> "active" ]

\* Survey(channel_id=..., title=survey_data["title"], ..., status="draft")
NewSurvey(channel_id, survey_data) ==
    [ channel_id |-> channel_id, title |-> Get(survey_data, <<"title">>),
      description |-> Get(survey_data, <<"description">>),
      questions |-> JsonDumps(Get(survey_data, <<"questions">>)),
      status |-> "draft" ]

\* generate_survey(channel_id)
GenerateSurvey(store, channel_id, first, inline, answer, fault, time) ==
    LET name  == "generate_survey"
        inner == AnalyzeChannelContent(store, channel_id, inline, fault, time)
        chain == IF first = None THEN inner.calls ELSE <<>>
        mid   == IF first = None THEN inner.db ELSE store
        analysis_data == IF first = None THEN inner.calls[1].out.value
                         ELSE JsonLoads(TheValue(first).content)
        prompt == [analysis |-> analysis_data]
        Out(llm, out) == <<Call(name, channel_id, llm, prompt, answer, out)>> \o chain
    IN  IF fault = "query"
        THEN Done(store, <<Call(name, channel_id, 0, <<>>, NoAnswer, Raise("OperationalError"))>>)
        ELSE IF answer.kind = "raise"
        THEN Done(mid, Out(1, Return(ErrorDict("ProviderError"))))
        ELSE IF answer.content = None
        THEN Done(mid, Out(1, Return(ErrorDict("TypeError"))))
        ELSE IF ~IsJson(TheValue(answer.content))
        THEN Done(mid, Out(1, Return(ParseError(TheValue(answer.content)))))
        ELSE LET survey_data == JsonLoads(TheValue(answer.content)) IN
             IF \E k \in {<<"title">>, <<"description">>, <<"questions">>} :
                    ~HasKey(survey_data, k)
             THEN Done(mid, Out(1, Return(ErrorDict("KeyError"))))
             ELSE LET pending == Add(<<>>, "surveys", NewSurvey(channel_id, survey_data)) IN
                  IF fault = "commit" \/ ~CommitOk(mid, pending, time)
                  THEN Done(mid, Out(1, Return(ErrorDict("OperationalError"))))
                  ELSE Done(Commit(mid, pending, time),
                            Out(1, Return(Dict(<<KV(<<"success">>, Bool(TRUE)),
                                                 KV(<<"survey">>, survey_data)>>))))

(***************************************************************************)
(* The operations of the service as its callers invoke them, each on a     *)
(* session of its own.                                                     *)
(***************************************************************************)
ChannelIds == {TgChannelId, TgChannelId + 1}

\* The operations run while the tables they write hold fewer than MaxRows rows.
ServiceRows == Len(db.analyses) + Len(db.content_plans) + Len(db.surveys)
Budget == ServiceRows < MaxRows

\* The inline analysis is prompted only when no analysis is stored.
InlineAnswers(first) == IF first = None THEN AnalysisAnswers ELSE {NoAnswer}

Handled(r, fault) ==
    /\ db' = r.db
    /\ last' = [op |-> r.calls[1].op, raised |-> r.calls[1].out.kind = "raise",
                calls |-> r.calls, fault |-> fault]

AnalyzeChannel(channel_id, answer, fault) ==
    /\ last = Idle
    /\ Handled(AnalyzeChannelContent(db, channel_id, answer, fault, now), fault)
    /\ UNCHANGED <<now, tg, client, conv, user_data>>

ContentPlan(channel_id, days, first, inline, answer, fault) ==
    /\ last = Idle
    /\ Handled(GenerateContentPlan(db, channel_id, days, first, inline, answer, fault, now), fault)
    /\ UNCHANGED <<now, tg, client, conv, user_data>>

AnalyzePost(post_id, answer, fault) ==
    /\ last = Idle
    /\ Handled(AnalyzePostPerformance(db, post_id, answer, fault, now), fault)
    /\ UNCHANGED <<now, tg, client, conv, user_data>>

Survey(channel_id, first, inline, answer, fault) ==
    /\ last = Idle
    /\ Handled(GenerateSurvey(db, channel_id, first, inline, answer, fault, now), fault)
    /\ UNCHANGED <<now, tg, client, conv, user_data>>

NextOrch ==
    \/ /\ last = Idle /\ Budget
       /\ \E c \in ChannelIds, a \in AnalysisAnswers, f \in Faults : AnalyzeChannel(c, a, f)
    \/ /\ last = Idle /\ Budget
       /\ \E c \in ChannelIds, d \in 1..MaxDays, a \in PlanReplies, f \in Faults :
             \E first \in FirstAnalysis(db, c) : \E i \in InlineAnswers(first) :
                ContentPlan(c, d, first, i, a, f)
    \/ /\ last = Idle /\ Budget
       /\ \E p \in {1, 2, 9}, a \in PostAnswers, f \in Faults : AnalyzePost(p, a, f)
    \/ /\ last = Idle /\ Budget
       /\ \E c \in ChannelIds, a \in SurveyAnswers, f \in Faults :
             \E first \in FirstAnalysis(db, c) : \E i \in InlineAnswers(first) :
                Survey(c, first, i, a, f)
    \/ Tick
    \/ Forget

\* A channel with one post that has reactions and one message without text;
\* one reply by a user.
FixedTg ==
    [ history |-> Numbered(<<[message |-> Some(<<"post">>),
                              reactions |-> Some(<<Emoji, CustomEmoji, PaidReaction>>)],
                             [message |-> None, reactions |-> None]>>, 1),
      replies |-> Numbered(<<[message |-> Some(<<"reply">>), from_id |-> Some(UserPeer),
                              reactions |-> None]>>, 11) ]

\* The store after get_posts has collected the channel once.
Collected == Commit(EmptyDb, PostsPending(FixedTg.history, TgChannelId, <<>>), 0)

\* The store after get_posts has also collected a second channel.
CollectedBoth == Commit(Collected, PostsPending(FixedTg.history, TgChannelId + 1, <<>>), 0)

InitOrch ==
    /\ db \in {EmptyDb, Collected}
    /\ now = 0
    /\ tg = FixedTg
    /\ client = "none"
    /\ conv = [u \in Users |-> "END"]
    /\ user_data = [u \in Users |-> NoUserData]
    /\ last = Idle

SpecOrch == InitOrch /\ [][NextOrch]_vars

(***************************************************************************)
(* The service over a store that holds analyses: two collected channels,   *)
(* analyses of both made at different times, analyses of posts, and the    *)
(* plans and surveys that are built on them.                               *)
(***************************************************************************)
MaxAnalyses == 2    \* analyses are made while fewer Analysis rows are stored
MaxChained == 1     \* plans and surveys are made while fewer of their rows are stored

ChainedRows == Len(db.content_plans) + Len(db.surveys)

NextChain ==
    \/ /\ last = Idle /\ Len(db.analyses) < MaxAnalyses
       /\ \E c \in ChannelIds : AnalyzeChannel(c, GoodAnalysis, "none")
    \/ /\ last = Idle /\ Len(db.analyses) < MaxAnalyses
       /\ \E p \in {1} : AnalyzePost(p, GoodPostAnalysis, "none")
    \/ /\ last = Idle /\ ChainedRows < MaxChained
       /\ \E c \in ChannelIds, f \in {"none", "query"} :
             \E first \in FirstAnalysis(db, c) : \E i \in InlineAnswers(first) :
                \E a \in {NotJson, PlanAnswer("plan1", <<KV(DayKey("1"), DayPlan("a"))>>)} :
                   ContentPlan(c, 1, first, i, a, f)
    \/ /\ last = Idle /\ ChainedRows < MaxChained
       /\ \E c \in ChannelIds, f \in {"none", "query"} :
             \E first \in FirstAnalysis(db, c) : \E i \in InlineAnswers(first) :
                Survey(c, first, i, GoodSurvey, f)
    \/ Tick
    \/ Forget

InitChain ==
    /\ db = CollectedBoth
    /\ now = 0
    /\ tg = FixedTg
    /\ client = "none"
    /\ conv = [u \in Users |-> "END"]
    /\ user_data = [u \in Users |-> NoUserData]
    /\ last = Idle

SpecChain == InitChain /\ [][NextChain]_vars

(***************************************************************************)
(* TelegramBot: the handlers of _setup_handlers and the conversation.      *)
(***************************************************************************)
Menu == <<"/", "menu">>                                 \* /menu
Cancel == <<"/", "cancel">>                             \* /cancel
AnalyzeChannelText == <<"Analiz", " ", "kanala">>       \* "Анализ канала"
ContentPlanText == <<"Generaciya", " ", "kontent", "-", "plana">>  \* "Генерация контент-плана"
AnalyzePostText == <<"Analiz", " ", "posta">>           \* "Анализ поста"
CreateSurveyText == <<"Sozdat", " ", "opros">>          \* "Создать опрос"
Da == <<"Da">>                                          \* "Да"
Net == <<"Net">>                                        \* "Нет"

\* filters.COMMAND: the text starts with a bot command.
IsCommand(text) == Len(text) >= 2 /\ Head(text) = "/"

\* CommandHandler(name): the command of the text is /name.
Command(text, name) == IsCommand(text) /\ text[2] = name

\* filters.Regex("^pattern$"): re.search finds the pattern in the text.
Regex(text, pattern) == text = pattern \/ text = Append(pattern, "\n")

\* A registration in which WAITING_FOR_CONFIRMATION hands any text that is
\* no command to confirm_action.
StateHandlerAnyReply(state, text) ==
    CASE state = "MENU" ->
            IF Regex(text, AnalyzeChannelText) THEN "analyze_channel"
            ELSE IF Regex(text, ContentPlanText) THEN "generate_content_plan"
            ELSE IF Regex(text, AnalyzePostText) THEN "analyze_post"
            ELSE IF Regex(text, CreateSurveyText) THEN "create_survey"
            ELSE ""
      [] state = "ANALYZE_CHANNEL" ->
            IF ~IsCommand(text) THEN "process_channel_analysis" ELSE ""
      [] state = "GENERATE_CONTENT_PLAN" ->
            IF ~IsCommand(text) THEN "process_content_plan" ELSE ""
      [] state = "ANALYZE_POST" ->
            IF ~IsCommand(text) THEN "process_post_analysis" ELSE ""
      [] state = "CREATE_SURVEY" ->
            IF ~IsCommand(text) THEN "process_survey_creation" ELSE ""
      [] state = "WAITING_FOR_CONFIRMATION" ->
            IF ~IsCommand(text) THEN "confirm_action" ELSE ""
      [] OTHER -> ""

\* The handlers registered for a conversation state (lines 63-86), as the
\* first of them that accepts the text; "" when none does.
StateHandler(state, text) ==
    CASE state = "MENU" ->
            IF Regex(text, AnalyzeChannelText) THEN "analyze_channel"
            ELSE IF Regex(text, ContentPlanText) THEN "generate_content_plan"
            ELSE IF Regex(text, AnalyzePostText) THEN "analyze_post"
            ELSE IF Regex(text, CreateSurveyText) THEN "create_survey"
            ELSE ""
      [] state = "ANALYZE_CHANNEL" ->
            IF ~IsCommand(text) THEN "process_channel_analysis" ELSE ""
      [] state = "GENERATE_CONTENT_PLAN" ->
            IF ~IsCommand(text) THEN "process_content_plan" ELSE ""
      [] state = "ANALYZE_POST" ->
            IF ~IsCommand(text) THEN "process_post_analysis" ELSE ""
      [] state = "CREATE_SURVEY" ->
            IF ~IsCommand(text) THEN "process_survey_creation" ELSE ""
      [] state = "WAITING_FOR_CONFIRMATION" ->
            IF Regex(text, Da) THEN "confirm_action"
            ELSE IF Regex(text, Net) THEN "cancel_action"
            ELSE ""
      [] OTHER -> ""

\* The handlers of a conversation that has no fallback.
HandlerWithoutFallback(state, text) ==
    IF Command(text, "start") THEN "start_command"
    ELSE IF Command(text, "help") THEN "help_command"
    ELSE IF state = "END" /\ Command(text, "menu") THEN "menu_command"
    ELSE IF state # "END" /\ StateHandler(state, text) # "" THEN StateHandler(state, text)
    ELSE IF IsCommand(text) THEN "unknown_command"
    ELSE ""

\* The handler the application runs for an update: the first handler of
\* lines 57-92 that accepts it.  Outside a conversation only the entry point
\* /menu belongs to the conversation; inside one, the handlers of its state
\* and then the fallback /cancel.
Handler(state, text) ==
    IF Command(text, "start") THEN "start_command"
    ELSE IF Command(text, "help") THEN "help_command"
    ELSE IF state = "END" /\ Command(text, "menu") THEN "menu_command"
    ELSE IF state # "END" /\ StateHandler(state, text) # "" THEN StateHandler(state, text)
    ELSE IF state # "END" /\ Command(text, "cancel") THEN "cancel"
    ELSE IF IsCommand(text) THEN "unknown_command"
    ELSE ""

\* The text as the user wrote it, stripped only.
ChannelUsernameVerbatim(text) == Strip(text)

\* Lines 162-166: text.strip(), then one leading "@" is dropped.
ChannelUsername(text) ==
    LET stripped == Strip(text)
    IN  IF stripped # <<>> /\ Head(stripped) = "@" THEN Tail(stripped) ELSE stripped

\* process_channel_analysis, process_content_plan, process_survey_creation.
ProcessChannel(data, text, action) ==
    [ state |-> "WAITING_FOR_CONFIRMATION",
      data |-> [data EXCEPT !.channel_username = Some(ChannelUsername(text)),
                            !.pending_action = Some(action)],
      reply |-> "confirm?" ]

\* process_post_analysis that records the task before it reads the number.
ProcessPostAnalysisEager(data, text) ==
    IF PyInt(Strip(text)) = None
    THEN [state |-> "ANALYZE_POST",
          data |-> [data EXCEPT !.pending_action = Some("analyze_post")],
          reply |-> "bad post id"]
    ELSE [ state |-> "WAITING_FOR_CONFIRMATION",
           data |-> [data EXCEPT !.post_id = PyInt(Strip(text)),
                                 !.pending_action = Some("analyze_post")],
           reply |-> "confirm?" ]

\* process_post_analysis
ProcessPostAnalysis(data, text) ==
    IF PyInt(Strip(text)) = None
    THEN [state |-> "ANALYZE_POST", data |-> data, reply |-> "bad post id"]
    ELSE [ state |-> "WAITING_FOR_CONFIRMATION",
           data |-> [data EXCEPT !.post_id = PyInt(Strip(text)),
                                 !.pending_action = Some("analyze_post")],
           reply |-> "confirm?" ]

\* The handlers that call no operation of the service: the next state of
\* the conversation, the user data and the reply.
Handle(handler, state, data, text) ==
    CASE handler = "menu_command" -> [state |-> "MENU", data |-> data, reply |-> "menu"]
      [] handler = "analyze_channel" ->
            [state |-> "ANALYZE_CHANNEL", data |-> data, reply |-> "channel?"]
      [] handler = "generate_content_plan" ->
            [state |-> "GENERATE_CONTENT_PLAN", data |-> data, reply |-> "channel?"]
      [] handler = "analyze_post" ->
            [state |-> "ANALYZE_POST", data |-> data, reply |-> "post id?"]
      [] handler = "create_survey" ->
            [state |-> "CREATE_SURVEY", data |-> data, reply |-> "channel?"]
      [] handler = "process_channel_analysis" -> ProcessChannel(data, text, "analyze_channel")
      [] handler = "process_content_plan" -> ProcessChannel(data, text, "generate_content_plan")
      [] handler = "process_survey_creation" -> ProcessChannel(data, text, "create_survey")
      [] handler = "process_post_analysis" -> ProcessPostAnalysis(data, text)
      [] handler = "cancel_action" -> [state |-> "END", data |-> data, reply |-> "cancelled"]
      [] handler = "cancel" -> [state |-> "END", data |-> data, reply |-> "cancelled"]
      [] handler \in {"start_command", "help_command"} ->
            [state |-> state, data |-> data, reply |-> "help"]
      [] handler = "unknown_command" ->
            [state |-> state, data |-> data, reply |-> "unknown command"]
      [] OTHER -> [state |-> state, data |-> data, reply |-> ""]

\* "Для простоты примера используем 1": the channel id of every request of
\* the bot, and the days of the plan it asks for.
BotChannelId == 1
BotPlanDays == 7

\* What a _perform_* method makes of the value the service returned: the
\* summary message, or the error when the value has the key "error" or
\* formatting it raised.
Summarized(out) ==
    IF out.kind = "return" /\ out.value.t = "dict" /\ ~HasKey(out.value, <<"error">>)
    THEN [error |-> FALSE, text |-> "summary"]
    ELSE [error |-> TRUE, text |-> "error"]

\* `r` is the store after the call of the service and the calls made.
Performed(r) == [db |-> r.db, calls |-> r.calls, result |-> Summarized(r.calls[1].out)]
NotPerformed(store) == [db |-> store, calls |-> <<>>,
                        result |-> [error |-> TRUE, text |-> "missing input"]]

\* `if not channel_username` and `if not post_id`
NoChannel(data) == data.channel_username \in {None, Some(<<>>)}
NoPost(data) == data.post_id \in {None, Some(0)}

\* _perform_channel_analysis
PerformChannelAnalysis(data, store, answer, fault, time) ==
    IF NoChannel(data) THEN NotPerformed(store)
    ELSE Performed(AnalyzeChannelContent(store, BotChannelId, answer, fault, time))

\* _perform_content_plan_generation
PerformContentPlanGeneration(data, store, first, inline, answer, fault, time) ==
    IF NoChannel(data) THEN NotPerformed(store)
    ELSE Performed(GenerateContentPlan(store, BotChannelId, BotPlanDays, first, inline,
                                      answer, fault, time))

\* _perform_post_analysis
PerformPostAnalysis(data, store, answer, fault, time) ==
    IF NoPost(data) THEN NotPerformed(store)
    ELSE Performed(AnalyzePostPerformance(store, TheValue(data.post_id), answer, fault, time))

\* _perform_survey_creation
PerformSurveyCreation(data, store, first, inline, answer, fault, time) ==
    IF NoChannel(data) THEN NotPerformed(store)
    ELSE Performed(GenerateSurvey(store, BotChannelId, first, inline, answer, fault, time))

\* Lines 319-329 of confirm_action: the operation of the pending action.
Dispatch(action, data, store, first, inline, answer, fault, time) ==
    CASE action = "analyze_channel" ->
            PerformChannelAnalysis(data, store, answer, fault, time)
      [] action = "generate_content_plan" ->
            PerformContentPlanGeneration(data, store, first, inline, answer, fault, time)
      [] action = "analyze_post" ->
            PerformPostAnalysis(data, store, answer, fault, time)
      [] action = "create_survey" ->
            PerformSurveyCreation(data, store, first, inline, answer, fault, time)
      [] OTHER -> [db |-> store, calls |-> <<>>,
                   result |-> [error |-> TRUE, text |-> "unknown action"]]

\* confirm_action that reports successes only.
ConfirmedUnlessError(data, done) ==
    IF done.result.error
    THEN [ state |-> "WAITING_FOR_CONFIRMATION", data |-> data, reply |-> "",
           db |-> done.db, calls |-> done.calls ]
    ELSE [ state |-> "END", data |-> data, reply |-> "done",
           db |-> done.db, calls |-> done.calls ]

\* Lines 331-342 of confirm_action: the reply after the operation, and the
\* conversation ends.
Confirmed(data, done) ==
    [ state |-> "END", data |-> data,
      reply |-> IF done.result.error THEN "error" ELSE "done",
      db |-> done.db, calls |-> done.calls ]

\* confirm_action without lines 307-312: a missing action is taken for the
\* analysis of the channel.
ConfirmActionUnguarded(data, store, first, inline, answer, fault, time) ==
    Confirmed(data, Dispatch(IF data.pending_action = None THEN "analyze_channel"
                             ELSE TheValue(data.pending_action),
                             data, store, first, inline, answer, fault, time))

\* confirm_action
ConfirmAction(data, store, first, inline, answer, fault, time) ==
    IF data.pending_action = None
    THEN [state |-> "END", data |-> data, reply |-> "start again", db |-> store,
          calls |-> <<>>]
    ELSE Confirmed(data, Dispatch(TheValue(data.pending_action), data, store, first, inline,
                                  answer, fault, time))

\* What users write to the bot.
Texts ==
    { Menu, Cancel, AnalyzeChannelText, ContentPlanText, AnalyzePostText,
      CreateSurveyText, Da, Net, <<"@", "testchan">>, <<"@">>, <<"abc">>,
      <<" ", "1", " ">>, <<"0">> }

\* The answers of the model to the prompts of one operation.
Answers(action) ==
    CASE action = Some("generate_content_plan") -> PlanReplies
      [] action = Some("analyze_post") -> PostAnswers
      [] action = Some("create_survey") -> SurveyAnswers
      [] OTHER -> AnalysisAnswers \cup {JsonList}

\* An update handled over one context that all users share.
UpdateShared(u, text) ==
    /\ last = Idle
    /\ Handler(conv[u], text) # "confirm_action"
    /\ LET handler == Handler(conv[u], text)
           h == Handle(handler, conv[u], user_data[u], text)
       IN  /\ conv' = [conv EXCEPT ![u] = h.state]
           /\ user_data' = [v \in DOMAIN user_data |-> h.data]
           /\ last' = [op |-> "update", raised |-> FALSE, user |-> u, text |-> text,
                       handler |-> handler, reply |-> h.reply, calls |-> <<>>]
    /\ UNCHANGED <<db, now, tg, client>>

\* An update handled by a handler that calls nothing.
Update(u, text) ==
    /\ last = Idle
    /\ Handler(conv[u], text) # "confirm_action"
    /\ LET handler == Handler(conv[u], text)
           h == Handle(handler, conv[u], user_data[u], text)
       IN  /\ conv' = [conv EXCEPT ![u] = h.state]
           /\ user_data' = [user_data EXCEPT ![u] = h.data]
           /\ last' = [op |-> "update", raised |-> FALSE, user |-> u, text |-> text,
                       handler |-> handler, reply |-> h.reply, calls |-> <<>>]
    /\ UNCHANGED <<db, now, tg, client>>

\* An update handled by confirm_action.
Confirm(u, text, first, inline, answer, fault) ==
    /\ last = Idle
    /\ ServiceRows < MaxBotRows
    /\ Handler(conv[u], text) = "confirm_action"
    /\ \E h \in {ConfirmAction(user_data[u], db, first, inline, answer, fault, now)} :
           /\ conv' = [conv EXCEPT ![u] = h.state]
           /\ user_data' = [user_data EXCEPT ![u] = h.data]
           /\ db' = h.db
           /\ last' = [op |-> "update", raised |-> FALSE, user |-> u, text |-> text,
                       handler |-> "confirm_action", reply |-> h.reply, calls |-> h.calls,
                       fault |-> fault]
    /\ UNCHANGED <<now, tg, client>>

NextBot ==
    \/ \E u \in DOMAIN conv, text \in Texts : Update(u, text)
    \/ \E u \in DOMAIN conv, text \in Texts :
          /\ last = Idle
          /\ Handler(conv[u], text) = "confirm_action"
          /\ \E f \in Faults, first \in FirstAnalysis(db, BotChannelId),
                answer \in Answers(user_data[u].pending_action) :
                \E inline \in InlineAnswers(first) : Confirm(u, text, first, inline, answer, f)
    \/ Forget

InitBot ==
    /\ db \in {EmptyDb, Collected}
    /\ now = 0
    /\ tg = FixedTg
    /\ client = "none"
    /\ conv = [u \in Users |-> "END"]
    /\ user_data = [u \in Users |-> NoUserData]
    /\ last = Idle

SpecBot == InitBot /\ [][NextBot]_vars

(***************************************************************************)
(* confirm_action on every input.  The handlers of the bot record the      *)
(* pending action before they return WAITING_FOR_CONFIRMATION, so          *)
(* confirm_action never meets user data without one in a conversation that *)
(* began with /menu; lines 305-312 handle that input nevertheless.  Here   *)
(* the handler is given user data of every shape at the confirmation.      *)
(***************************************************************************)
InitConfirm ==
    /\ db \in {EmptyDb, Collected}
    /\ now = 0
    /\ tg = FixedTg
    /\ client = "none"
    /\ conv = [u \in Users |-> "WAITING_FOR_CONFIRMATION"]
    /\ user_data \in [Users -> [channel_username : {None, Some(<<"testchan">>)},
                                post_id : {None, Some(1)},
                                pending_action : {None, Some("analyze_channel")}]]
    /\ last = Idle

SpecConfirm == InitConfirm /\ [][NextBot]_vars

(***************************************************************************)
(* Two users talk to the bot at the same time.  The application handles    *)
(* one update after the other; the state of a conversation is kept per     *)
(* user and context.user_data is the dictionary of the user who sent the   *)
(* update.                                                                 *)
(***************************************************************************)
InitPair ==
    /\ db = Collected
    /\ now = 0
    /\ tg = FixedTg
    /\ client = "none"
    /\ conv = [u \in {"u1", "u2"} |-> "END"]
    /\ user_data = [u \in {"u1", "u2"} |-> NoUserData]
    /\ last = Idle

NextPair ==
    \/ \E u \in DOMAIN conv,
          text \in {Menu, AnalyzeChannelText, AnalyzePostText, Da,
                    <<"@", "testchan">>, <<" ", "1", " ">>} :
          Update(u, text)
    \/ \E u \in DOMAIN conv :
          /\ last = Idle
          /\ Handler(conv[u], Da) = "confirm_action"
          /\ \E f \in {"none", "query"}, first \in FirstAnalysis(db, BotChannelId),
                answer \in {GoodAnalysis} :
                \E inline \in InlineAnswers(first) : Confirm(u, Da, first, inline, answer, f)
    \/ Forget

SpecPair == InitPair /\ [][NextPair]_vars

(***************************************************************************)
(* Sessions.  get_posts opens a session of its own (`with SessionLocal()`) *)
(* and every caller of the service hands it a session of its own; a        *)
(* session collects the objects given to db.add and writes them at         *)
(* db.commit().  Here two callers run side by side, one db.add at a time:  *)
(* `last.of[p]` is the session of caller p, `queue` the objects its loop   *)
(* will still add, `pending` those it has added, `raises` whether the loop *)
(* raises after the last of them, `began` the Post rows stored when        *)
(* get_posts was called.  A caller can be stopped at any point.            *)
(***************************************************************************)
MaxSessionRows == 2     \* a session begins while fewer rows of its table are stored

Procs == {1, 2}

\* A caller that runs nothing; `did` tells how its last run ended.
NoSession(did) == [op |-> "none", did |-> did]

\* db.add(obj) in a session made with autocommit=False: the object waits in
\* the session and the store is as it was.
StagedAutocommit(store, item, time) == InsertRow(store, item.table, item.obj, time)
Staged(store, item, time) == store

\* Caller p moves to session `session`.
Moves(p, session) == last' = [last EXCEPT !.of[p] = session]

NextSessions ==
    \* get_posts up to the loop of lines 94-121
    \/ \E p \in Procs :
          /\ last.of[p].op = "none"
          /\ Len(db.posts) < MaxSessionRows
          /\ Moves(p, [ op |-> "get_posts", pending |-> <<>>, raises |-> FALSE,
                        began |-> Len(db.posts),
                        queue |-> PostsPending(GetHistory(Len(tg.history)), TgChannelId, <<>>) ])
          /\ UNCHANGED <<db, now, tg, client, conv, user_data>>
    \* generate_content_plan up to the loop of lines 226-239
    \/ \E p \in Procs, answer \in PlanAnswers :
          /\ last.of[p].op = "none"
          /\ Len(db.content_plans) < MaxSessionRows
          /\ \E loop \in {PlanPending(JsonLoads(TheValue(answer.content)).items,
                                      BotChannelId, now, <<>>)} :
                Moves(p, [ op |-> "generate_content_plan", pending |-> <<>>,
                           raises |-> loop.raised, queue |-> loop.pending,
                           answer |-> answer ])
          /\ UNCHANGED <<db, now, tg, client, conv, user_data>>
    \* one db.add of the loop
    \/ \E p \in Procs :
          /\ last.of[p].op # "none"
          /\ last.of[p].queue # <<>>
          /\ Moves(p, [last.of[p] EXCEPT !.queue = Tail(@),
                                         !.pending = Append(@, Head(last.of[p].queue))])
          /\ db' = Staged(db, Head(last.of[p].queue), now)
          /\ UNCHANGED <<now, tg, client, conv, user_data>>
    \* the loop is over: it raised and nothing is committed, or db.commit()
    \/ \E p \in Procs :
          /\ last.of[p].op # "none"
          /\ last.of[p].queue = <<>>
          /\ IF last.of[p].raises
             THEN db' = db /\ Moves(p, NoSession("raised"))
             ELSE db' = Commit(db, last.of[p].pending, now) /\ Moves(p, NoSession("committed"))
          /\ UNCHANGED <<now, tg, client, conv, user_data>>
    \* the loop of get_posts raises while objects are still to be added:
    \* `with SessionLocal()` closes the session with what it holds
    \/ \E p \in Procs :
          /\ last.of[p].op = "get_posts"
          /\ last.of[p].queue # <<>>
          /\ Moves(p, NoSession("raised"))
          /\ UNCHANGED <<db, now, tg, client, conv, user_data>>
    \* the process of the caller stops: its session is lost
    \/ \E p \in Procs :
          /\ last.of[p].op # "none"
          /\ Moves(p, NoSession("stopped"))
          /\ UNCHANGED <<db, now, tg, client, conv, user_data>>

InitSessions ==
    /\ db = EmptyDb
    /\ now = 0
    /\ tg \in [ history : { Numbered(h, 1) : h \in [1..2 -> MessageShapes] },
                replies : {<<>>} ]
    /\ client = "connected"
    /\ conv = [u \in Users |-> "END"]
    /\ user_data = [u \in Users |-> NoUserData]
    /\ last = [op |-> "sessions", raised |-> FALSE, of |-> [p \in Procs |-> NoSession("")]]

SpecSessions == InitSessions /\ [][NextSessions]_vars

(***************************************************************************)
(* The REST adapters of routes.py.  A response is its status code; every   *)
(* request has a session and, where it collects, a collector of its own.   *)
(***************************************************************************)
\* `except Exception` around the body of an endpoint (lines 89-94, 174-179,
\* 259-264, ...): HTTPException is an Exception, so whatever the body
\* raised leaves the endpoint as a 500.
Caught(status_code) == IF status_code = 200 THEN 200 ELSE 500

\* add_channel(channel_data); `started` is whether collector.start()
\* succeeded.  The store afterwards, the status of the response, and
\* whether line 87, `await collector.stop()`, was reached.
AddChannel(store, username, started, time) ==
    LET name    == IF username # <<>> /\ Head(username) = "@" THEN Tail(username)
                   ELSE username
        pending == Add(<<>>, "channels", [tg_id |-> TgChannelId, username |-> name])
    IN  IF ~started THEN [db |-> store, status |-> Caught(500), stopped |-> FALSE]
        ELSE IF username = <<>> THEN [db |-> store, status |-> Caught(400), stopped |-> FALSE]
        ELSE IF name # TgUsername \/ ~CommitOk(store, pending, time)
        THEN [db |-> store, status |-> Caught(500), stopped |-> FALSE]
        ELSE [db |-> Commit(store, pending, time), status |-> 200, stopped |-> TRUE]

\* The loop of collect_channel_data over the posts (lines 161-165):
\* get_comments for each of them, until one raises.
RECURSIVE CollectComments(_, _, _)
CollectComments(store, posts, time) ==
    IF posts = <<>> THEN [db |-> store, status |-> 200]
    ELSE LET pending == CommentsPending(GetReplies(Head(posts).id, 50), Head(posts).id, <<>>)
         IN  IF ~CommitOk(store, pending, time) THEN [db |-> store, status |-> Caught(500)]
             ELSE CollectComments(Commit(store, pending, time), Tail(posts), time)

\* The body shared by analyze_channel, generate_content_plan, analyze_post
\* and create_survey: 404 when the row is not stored, else the call `r` of
\* the service, 500 when it raised or returned an error.
Served(store, found, r) ==
    IF ~found THEN [db |-> store, status |-> Caught(404), calls |-> <<>>]
    ELSE [ db |-> r.db, calls |-> r.calls,
           status |-> IF Summarized(r.calls[1].out).error THEN Caught(500) ELSE 200 ]

\* The request handled last and its response.
Responded(op, id, status_code, calls) ==
    last' = [op |-> op, raised |-> FALSE, id |-> id, status |-> status_code, calls |-> calls]

NextApi ==
    \* POST /channels
    \/ \E username \in {TgUsername, <<"@">> \o TgUsername, <<"nochan">>, <<>>},
          started \in BOOLEAN :
          /\ last = Idle
          /\ \E h \in {AddChannel(db, username, started, now)} :
                /\ db' = h.db
                /\ last' = [op |-> "add_channel", raised |-> FALSE, username |-> username,
                            started |-> started, status |-> h.status,
                            start_called |-> TRUE, stopped |-> h.stopped]
          /\ UNCHANGED <<now, tg, client, conv, user_data>>
    \* POST /channels/{channel_id}/collect
    \/ \E channel_id \in ChannelIds, started \in BOOLEAN :
          /\ last = Idle
          /\ Len(db.posts) < MaxPosts
          /\ IF \A k \in 1..Len(db.channels) : db.channels[k].id # channel_id
             THEN /\ db' = db
                  /\ last' = [ op |-> "collect_channel_data", raised |-> FALSE,
                               id |-> channel_id, status |-> Caught(404), calls |-> <<>>,
                               start_called |-> FALSE, stopped |-> FALSE ]
             ELSE IF ~started \/ db.channels[channel_id].username # TgUsername
             THEN /\ db' = db
                  /\ last' = [ op |-> "collect_channel_data", raised |-> FALSE,
                               id |-> channel_id, status |-> Caught(500), calls |-> <<>>,
                               start_called |-> TRUE, stopped |-> FALSE ]
             ELSE \E h \in {CollectComments(
                               Commit(db, PostsPending(tg.history, TgChannelId, <<>>), now),
                               PostsReturned(tg.history), now)} :
                     /\ db' = h.db
                     /\ last' = [ op |-> "collect_channel_data", raised |-> FALSE,
                                  id |-> channel_id, status |-> h.status, calls |-> <<>>,
                                  start_called |-> TRUE, stopped |-> h.status = 200 ]
          /\ UNCHANGED <<now, tg, client, conv, user_data>>
    \* main.py collect_data(channel_username, limit), run from the command
    \* line over the same store: `finally` stops the collector
    \/ \E username \in Usernames, started \in BOOLEAN :
          /\ last = Idle
          /\ Len(db.posts) < MaxPosts
          /\ IF ~started \/ username # TgUsername
             THEN /\ db' = db
                  /\ last' = [op |-> "collect_data", raised |-> TRUE, username |-> username,
                              start_called |-> TRUE, stopped |-> TRUE]
             ELSE \E h \in {CollectComments(
                               Commit(db, PostsPending(tg.history, TgChannelId, <<>>), now),
                               PostsReturned(tg.history), now)} :
                     /\ db' = h.db
                     /\ last' = [op |-> "collect_data", raised |-> h.status # 200,
                                 username |-> username, start_called |-> TRUE,
                                 stopped |-> TRUE]
          /\ UNCHANGED <<now, tg, client, conv, user_data>>
    \* POST /channels/{channel_id}/analyze
    \/ \E channel_id \in ChannelIds, answer \in {GoodAnalysis, NotJson} :
          /\ last = Idle /\ Budget
          /\ \E h \in {Served(db, \E k \in 1..Len(db.channels) : db.channels[k].id = channel_id,
                              AnalyzeChannelContent(db, channel_id, answer, "none", now))} :
                db' = h.db /\ Responded("analyze_channel", channel_id, h.status, h.calls)
          /\ UNCHANGED <<now, tg, client, conv, user_data>>
    \* POST /channels/{channel_id}/content-plan
    \/ \E channel_id \in ChannelIds, answer \in {NotJson, PlanAnswer("plan1", <<KV(DayKey("1"), DayPlan("a"))>>)} :
          /\ last = Idle /\ Budget
          /\ \E first \in FirstAnalysis(db, channel_id) :
                \E h \in {Served(db, \E k \in 1..Len(db.channels) : db.channels[k].id = channel_id,
                                 GenerateContentPlan(db, channel_id, 1, first, GoodAnalysis,
                                                     answer, "none", now))} :
                   db' = h.db /\ Responded("generate_content_plan", channel_id, h.status, h.calls)
          /\ UNCHANGED <<now, tg, client, conv, user_data>>
    \* POST /posts/{post_id}/analyze
    \/ \E post_id \in {1, 2}, answer \in {GoodPostAnalysis, NotJson} :
          /\ last = Idle /\ Budget
          /\ \E h \in {Served(db, FindPost(db, post_id) # None,
                              AnalyzePostPerformance(db, post_id, answer, "none", now))} :
                db' = h.db /\ Responded("analyze_post", post_id, h.status, h.calls)
          /\ UNCHANGED <<now, tg, client, conv, user_data>>
    \* POST /channels/{channel_id}/survey
    \/ \E channel_id \in ChannelIds, answer \in {GoodSurvey, NotJson} :
          /\ last = Idle /\ Budget
          /\ \E first \in FirstAnalysis(db, channel_id) :
                \E h \in {Served(db, \E k \in 1..Len(db.channels) : db.channels[k].id = channel_id,
                                 GenerateSurvey(db, channel_id, first, GoodAnalysis, answer,
                                                "none", now))} :
                   db' = h.db /\ Responded("create_survey", channel_id, h.status, h.calls)
          /\ UNCHANGED <<now, tg, client, conv, user_data>>
    \/ Forget

\* The store is empty, or holds a channel that was registered earlier.
InitApi ==
    /\ db \in { EmptyDb,
                Commit(EmptyDb, Add(<<>>, "channels",
                                    [tg_id |-> TgChannelId + 1, username |-> <<"oldchan">>]), 0) }
    /\ now = 0
    /\ tg = [ history |-> Numbered(<<[message |-> Some(<<"post">>), reactions |-> Some(<<Emoji>>)]>>, 1),
              replies |-> FixedTg.replies ]
    /\ client = "none"
    /\ conv = [u \in Users |-> "END"]
    /\ user_data = [u \in Users |-> NoUserData]
    /\ last = Idle

SpecApi == InitApi /\ [][NextApi]_vars

(***************************************************************************)
(* Properties.                                                             *)
(***************************************************************************)
ServiceOps == { "analyze_channel_content", "generate_content_plan",
                "analyze_post_performance", "generate_survey" }

\* The calls of the service an outcome records, the outermost first.
CallsOf(outcome) == IF "calls" \in DOMAIN outcome THEN outcome.calls ELSE <<>>

NoRowOf(rows, channel_id) == \A i \in 1..Len(rows) : rows[i].channel_id # channel_id

\* C1: in the conversation of the bot an operation of the service is called
\* (and the store is written) only by an update whose text is "Да" while the
\* conversation of its user is in WAITING_FOR_CONFIRMATION.
C1_CalledOnlyByConfirmedYes ==
    [][ (db' # db \/ CallsOf(last') # <<>>)
            => /\ last'.op = "update"
               /\ conv[last'.user] = "WAITING_FOR_CONFIRMATION"
               /\ last'.text = Da ]_vars

\* "Да" in WAITING_FOR_CONFIRMATION has called an operation of the service.
C1_Witness ==
    /\ last.op = "update"
    /\ last.text = Da
    /\ last.handler = "confirm_action"
    /\ last.calls # <<>>
    /\ conv[last.user] = "END"

\* C2: get_posts is idempotent: the store holds one Post row per
\* (tg_id, channel_id), however often the same messages are collected.
C2_OnePostPerMessage ==
    \A i, j \in 1..Len(db.posts) :
        (db.posts[i].tg_id = db.posts[j].tg_id
            /\ db.posts[i].channel_id = db.posts[j].channel_id) => i = j

\* C3: every Reaction row has exactly one of post_id and comment_id set.
C3_ReactionHasOneOwner ==
    \A i \in 1..Len(db.reactions) :
        (db.reactions[i].post_id = None) # (db.reactions[i].comment_id = None)

\* C4: a call of the service never raises: whatever fails during it, a
\* failing query or commit of the store included, it returns a payload, and
\* the payload has the key "error" when the store failed.
C4_NeverRaises ==
    last.op \in ServiceOps
        => /\ last.calls[1].out.kind = "return"
           /\ last.fault # "none" => HasKey(last.calls[1].out.value, <<"error">>)

\* A store query of a call of the service failed and the call raised.
C4_Raised ==
    /\ last.op \in ServiceOps
    /\ last.fault = "query"
    /\ last.calls[1].out.kind = "raise"

\* C5: analyze_channel_content, called directly or inline, on a channel of
\* which the store holds no post returns {"error": "No posts found for
\* analysis"}, sends no request to the model and writes nothing.
C5_NoPostsNoAnalysis ==
    [][ \A i \in 1..Len(CallsOf(last')) :
            LET call == last'.calls[i] IN
            (call.op = "analyze_channel_content"
                /\ last'.fault # "query"
                /\ NoRowOf(db.posts, call.arg))
            => /\ call.out.kind = "return"
               /\ call.out.value =
                      Dict(<<KV(<<"error">>, Str(<<"No posts found for analysis">>))>>)
               /\ call.llm = 0
               /\ db'.analyses = db.analyses
               /\ i = 1 => db' = db ]_vars

\* A channel without posts has been analyzed.
C5_Witness ==
    /\ last.op = "analyze_channel_content"
    /\ last.fault = "none"
    /\ NoRowOf(db.posts, last.calls[1].arg)
    /\ HasKey(last.calls[1].out.value, <<"error">>)
    /\ last.calls[1].llm = 0

\* The answer of the model the call received is a text that is no JSON.
NotJsonAnswer(call) ==
    /\ call.llm = 1
    /\ call.answer.kind = "message"
    /\ call.answer.content # None
    /\ TheValue(call.answer.content).json = None

\* The answer of the model the call received is a text.
TextAnswer(call) ==
    /\ call.llm = 1
    /\ call.answer.kind = "message"
    /\ call.answer.content # None

\* C6: when the answer to the plan prompt is no JSON, generate_content_plan
\* returns a payload with the keys "error" and "raw_response" (the text of
\* the answer) and the content_plans table is unchanged.
C6_PlanNotJson ==
    [][ (last'.op = "generate_content_plan" /\ NotJsonAnswer(last'.calls[1]))
            => LET out == last'.calls[1].out IN
               /\ out.kind = "return"
               /\ HasKey(out.value, <<"error">>)
               /\ HasKey(out.value, <<"raw_response">>)
               /\ Get(out.value, <<"raw_response">>)
                      = Str(TheValue(last'.calls[1].answer.content).raw)
               /\ db'.content_plans = db.content_plans ]_vars

\* A plan was asked for and the answer was no JSON.
C6_Witness ==
    /\ last.op = "generate_content_plan"
    /\ NotJsonAnswer(last.calls[1])
    /\ HasKey(last.calls[1].out.value, <<"raw_response">>)

\* generate_content_plan succeeded and had found a stored analysis (it made
\* no inline call).
PlanSucceeded(outcome) ==
    /\ outcome.op = "generate_content_plan"
    /\ Len(outcome.calls) = 1
    /\ outcome.calls[1].out.kind = "return"
    /\ HasKey(outcome.calls[1].out.value, <<"success">>)

\* The rows a table gained, given the table before and after.
Gained(before, after) == SubSeq(after, Len(before) + 1, Len(after))
Kept(before, after) ==
    Len(before) <= Len(after) /\ SubSeq(after, 1, Len(before)) = before

\* C7 as stated: a successful generate_content_plan(channel_id, days) that
\* found a stored analysis persists exactly `days` ContentPlan rows of the
\* channel, dated today, today+1, ..., today+(days-1), each with status
\* "draft".
C7_ExactlyDaysRows ==
    [][ PlanSucceeded(last')
            => LET days == last'.calls[1].prompt.days
                   rows == Gained(db.content_plans, db'.content_plans)
               IN  /\ Kept(db.content_plans, db'.content_plans)
                   /\ Len(rows) = days
                   /\ \A k \in 1..days :
                         /\ rows[k].channel_id = last'.calls[1].arg
                         /\ rows[k].planned_date = now + (k - 1)
                         /\ rows[k].status = "draft" ]_vars

\* C7 amended: a successful generate_content_plan(channel_id, days) that
\* found a stored analysis persists exactly one ContentPlan row of the
\* channel per key of the model's answer, in the order of the keys; the row
\* of key day_k is dated today+(k-1) and has status "draft".
C7_RowPerDayKey ==
    [][ PlanSucceeded(last')
            => LET items == TheValue(TheValue(last'.calls[1].answer.content).json).items
                   rows  == Gained(db.content_plans, db'.content_plans)
               IN  /\ Kept(db.content_plans, db'.content_plans)
                   /\ Len(rows) = Len(items)
                   /\ \A i \in 1..Len(items) :
                         /\ rows[i].channel_id = last'.calls[1].arg
                         /\ rows[i].status = "draft"
                         /\ \A k \in 1..9 :
                               items[i].k = <<"day", "_", Digits[k + 1]>>
                                   => rows[i].planned_date = now + (k - 1) ]_vars

\* A plan of `days` days succeeded on an answer with another number of keys.
C7_Witness ==
    /\ PlanSucceeded(last)
    /\ Len(Get(last.calls[1].out.value, <<"content_plan">>).items)
           # last.calls[1].prompt.days
    /\ Len(db.content_plans) > 0

\* C8: whenever the model answers analyze_channel_content (called directly
\* or inline) with a text and the store accepts the commit, exactly one
\* Analysis row of type "channel_content" of that channel is added; its
\* content and the returned payload are the parsed text, or, when the text
\* is no JSON, the text under the single key "analysis".
C8_AnalysisAlwaysPersisted ==
    [][ \A i \in 1..Len(CallsOf(last')) :
            LET call == last'.calls[i] IN
            (call.op = "analyze_channel_content" /\ TextAnswer(call)
                /\ last'.fault = "none")
            => LET text    == TheValue(call.answer.content)
                   payload == IF text.json # None THEN TheValue(text.json)
                              ELSE Dict(<<KV(<<"analysis">>, Str(text.raw))>>)
                   rows    == Gained(db.analyses, db'.analyses)
               IN  /\ Kept(db.analyses, db'.analyses)
                   /\ Len(rows) = 1
                   /\ rows[1].analysis_type = "channel_content"
                   /\ rows[1].channel_id = Some(call.arg)
                   /\ rows[1].content.json = Some(payload)
                   /\ call.out = [kind |-> "return", value |-> payload] ]_vars

\* An answer that is no JSON was stored under the key "analysis".
C8_Witness ==
    /\ last.op = "analyze_channel_content"
    /\ NotJsonAnswer(last.calls[1])
    /\ last.fault = "none"
    /\ HasKey(last.calls[1].out.value, <<"analysis">>)
    /\ Len(db.analyses) > 0

\* C9: when the answer to analyze_post_performance or to the survey prompt
\* of generate_survey is no JSON, the call returns a payload with the key
\* "error" and adds no post_performance Analysis row and no Survey row; a
\* successful generate_survey adds exactly one Survey row, of the channel
\* and with status "draft".
C9_NotJsonPersistsNothing ==
    [][ LET call == last'.calls[1]
            OfPostPerformance(a) == a.analysis_type = "post_performance"
        IN  /\ (last'.op \in {"analyze_post_performance", "generate_survey"}
                    /\ NotJsonAnswer(call))
                => /\ call.out.kind = "return"
                   /\ HasKey(call.out.value, <<"error">>)
                   /\ SelectSeq(db'.analyses, OfPostPerformance)
                          = SelectSeq(db.analyses, OfPostPerformance)
                   /\ db'.surveys = db.surveys
            /\ (last'.op = "generate_survey" /\ call.out.kind = "return"
                    /\ HasKey(call.out.value, <<"success">>))
                => LET rows == Gained(db.surveys, db'.surveys)
                   IN  /\ Kept(db.surveys, db'.surveys)
                       /\ Len(rows) = 1
                       /\ rows[1].channel_id = call.arg
                       /\ rows[1].status = "draft" ]_vars

\* A survey was created.
C9_Witness ==
    /\ last.op = "generate_survey"
    /\ HasKey(last.calls[1].out.value, <<"success">>)
    /\ Len(db.surveys) > 0

\* C10: analyze_post_performance with a post id that is the id of no stored
\* Post returns {"error": "Post not found"}, sends no request to the model
\* and leaves the store unchanged.
C10_PostNotFound ==
    [][ (last'.op = "analyze_post_performance" /\ last'.fault # "query"
            /\ \A i \in 1..Len(db.posts) : db.posts[i].id # last'.calls[1].arg)
            => /\ last'.calls[1].out.kind = "return"
               /\ last'.calls[1].out.value =
                      Dict(<<KV(<<"error">>, Str(<<"Post not found">>))>>)
               /\ last'.calls[1].llm = 0
               /\ db' = db ]_vars

\* The analysis of a post that is not stored was asked for while posts are stored.
C10_Witness ==
    /\ last.op = "analyze_post_performance"
    /\ last.fault = "none"
    /\ Len(db.posts) > 0
    /\ \A i \in 1..Len(db.posts) : db.posts[i].id # last.calls[1].arg
    /\ HasKey(last.calls[1].out.value, <<"error">>)

\* C11: generate_content_plan and generate_survey whose query is answered
\* call analyze_channel_content inline if and only if the store holds no
\* channel_content Analysis row of the channel; when it holds one they make
\* no analysis call, add no Analysis row, and prompt with the content of a
\* row of that channel and type whose creation time is the greatest.
C11_ChainsOnlyWithoutAnalysis ==
    [][ (last'.op \in {"generate_content_plan", "generate_survey"}
            /\ last'.fault # "query")
            => LET c == last'.calls[1].arg
                   Matching(a) == a.channel_id = Some(c)
                                    /\ a.analysis_type = "channel_content"
                   rows == SelectSeq(db.analyses, Matching)
               IN  IF rows = <<>>
                   THEN /\ Len(last'.calls) = 2
                        /\ last'.calls[2].op = "analyze_channel_content"
                        /\ last'.calls[2].arg = c
                   ELSE /\ Len(last'.calls) = 1
                        /\ db'.analyses = db.analyses
                        /\ \E i \in 1..Len(rows) :
                              /\ \A j \in 1..Len(rows) :
                                    rows[j].created_at <= rows[i].created_at
                              /\ last'.calls[1].prompt.analysis
                                    = TheValue(rows[i].content.json) ]_vars

\* A plan or a survey reused the newer of two different analyses of its channel.
C11_Witness ==
    /\ last.op \in {"generate_content_plan", "generate_survey"}
    /\ last.fault = "none"
    /\ Len(last.calls) = 1
    /\ \E i, j \in 1..Len(db.analyses) :
          /\ db.analyses[i].channel_id = Some(last.calls[1].arg)
          /\ db.analyses[j].channel_id = Some(last.calls[1].arg)
          /\ db.analyses[i].created_at < db.analyses[j].created_at
          /\ db.analyses[i].content # db.analyses[j].content
          /\ last.calls[1].prompt.analysis = TheValue(db.analyses[j].content.json)

\* The task of a state that awaits a channel.
AwaitTask(state) ==
    CASE state = "ANALYZE_CHANNEL" -> "analyze_channel"
      [] state = "GENERATE_CONTENT_PLAN" -> "generate_content_plan"
      [] state = "CREATE_SURVEY" -> "create_survey"

\* C12: in ANALYZE_CHANNEL, GENERATE_CONTENT_PLAN and CREATE_SURVEY a text
\* that is no command is consumed: the text without its surrounding blanks
\* and without one leading "@" is stored as the channel, the pending action
\* becomes the task of the state the conversation was in, nothing else of
\* the context changes and the state becomes WAITING_FOR_CONFIRMATION.
C12_ChannelCaptured ==
    [][ (last'.op = "update"
            /\ conv[last'.user] \in {"ANALYZE_CHANNEL", "GENERATE_CONTENT_PLAN", "CREATE_SURVEY"}
            /\ Head(last'.text) # "/")
            => LET u    == last'.user
                   text == last'.text
                   got  == user_data'[u].channel_username
               IN  /\ conv'[u] = "WAITING_FOR_CONFIRMATION"
                   /\ user_data'[u].pending_action = Some(AwaitTask(conv[u]))
                   /\ user_data'[u].post_id = user_data[u].post_id
                   /\ text = <<"@", "testchan">> => got = Some(<<"testchan">>)
                   /\ text = <<" ", "1", " ">> => got = Some(<<"1">>)
                   /\ (Head(text) \notin {"@", " "} /\ text[Len(text)] # " ")
                          => got = Some(text)
                   /\ db' = db /\ last'.calls = <<>> ]_vars

\* "@testchan" was given for a content plan.
C12_Witness ==
    /\ last.op = "update"
    /\ last.handler = "process_content_plan"
    /\ last.text = <<"@", "testchan">>
    /\ conv[last.user] = "WAITING_FOR_CONFIRMATION"
    /\ user_data[last.user].channel_username = Some(<<"testchan">>)
    /\ user_data[last.user].pending_action = Some("generate_content_plan")

\* The operation of the service that carries out a pending action.
OperationOf(action) ==
    CASE action = "analyze_channel" -> "analyze_channel_content"
      [] action = "generate_content_plan" -> "generate_content_plan"
      [] action = "analyze_post" -> "analyze_post_performance"
      [] action = "create_survey" -> "generate_survey"

\* C13: when "Да" is handled in WAITING_FOR_CONFIRMATION with a pending
\* action, the bot calls the operation of that action, calls no other
\* operation itself (a further call is the inline analysis the operation
\* makes), and the conversation ends.
C13_YesCallsPendingOperation ==
    [][ (last'.op = "update" /\ last'.handler = "confirm_action"
            /\ user_data[last'.user].pending_action # None)
            => /\ Len(last'.calls) >= 1
               /\ last'.calls[1].op = OperationOf(TheValue(user_data[last'.user].pending_action))
               /\ \A i \in 2..Len(last'.calls) : last'.calls[i].op = "analyze_channel_content"
               /\ conv'[last'.user] = "END" ]_vars

\* "Да" confirmed the analysis of post 0 and no operation was called.
C13_YesWithoutCall ==
    /\ last.op = "update"
    /\ last.handler = "confirm_action"
    /\ user_data[last.user].pending_action = Some("analyze_post")
    /\ user_data[last.user].post_id = Some(0)
    /\ last.calls = <<>>

\* The lexemes a decimal integer is written with, blanks around it included.
NumberLexemes == {" ", "+", "-", "0", "1", "2", "3", "4", "5", "6", "7", "8", "9"}

\* C14: in ANALYZE_POST a text that is no command and no integer is answered
\* by the request to enter a number; the state stays ANALYZE_POST, the user
\* data are as before and nothing is called.
C14_BadPostIdAsksAgain ==
    [][ (last'.op = "update" /\ conv[last'.user] = "ANALYZE_POST"
            /\ Head(last'.text) # "/"
            /\ \E i \in 1..Len(last'.text) : last'.text[i] \notin NumberLexemes)
            => /\ conv'[last'.user] = "ANALYZE_POST"
               /\ user_data' = user_data
               /\ last'.reply = "bad post id"
               /\ last'.calls = <<>>
               /\ db' = db ]_vars

\* "abc" was answered in ANALYZE_POST by a user whose data hold the channel
\* of an earlier conversation.
C14_Witness ==
    /\ last.op = "update"
    /\ last.handler = "process_post_analysis"
    /\ last.text = <<"abc">>
    /\ conv[last.user] = "ANALYZE_POST"
    /\ user_data[last.user].channel_username = Some(<<"testchan">>)
    /\ user_data[last.user].pending_action = Some("analyze_channel")

\* C15: /cancel in a conversation that has not ended (MENU, a state that
\* awaits an input, WAITING_FOR_CONFIRMATION) ends it at once, and nothing is
\* called.
C15_CancelEnds ==
    [][ (last'.op = "update" /\ last'.text = Cancel /\ conv[last'.user] # "END")
            => /\ conv'[last'.user] = "END"
               /\ last'.handler = "cancel"
               /\ last'.calls = <<>>
               /\ db' = db ]_vars

\* /cancel ended a conversation that had recorded a post and its task.
C15_Witness ==
    /\ last.op = "update"
    /\ last.handler = "cancel"
    /\ last.text = Cancel
    /\ conv[last.user] = "END"
    /\ user_data[last.user].pending_action = Some("analyze_post")
    /\ user_data[last.user].post_id = Some(1)

\* C16: the user data of a user whose conversation is at END are empty:
\* no channel, no post and no pending action are left.
C16_EndHasNoContext ==
    \A u \in DOMAIN conv : conv[u] = "END" => user_data[u] = NoUserData

\* "Да" ended a conversation and the channel and the task it had recorded
\* are still in the user data.
C16_ContextLeftAfterYes ==
    /\ last.op = "update"
    /\ last.handler = "confirm_action"
    /\ conv[last.user] = "END"
    /\ user_data[last.user].channel_username = Some(<<"testchan">>)
    /\ user_data[last.user].pending_action = Some("analyze_channel")

\* C17: when "Да" is handled in WAITING_FOR_CONFIRMATION and the user data
\* hold no pending action, the bot asks to start again, the conversation
\* ends and nothing is called.
C17_NoPendingActionEnds ==
    [][ (last'.op = "update" /\ last'.handler = "confirm_action"
            /\ user_data[last'.user].pending_action = None)
            => /\ last'.reply = "start again"
               /\ conv'[last'.user] = "END"
               /\ last'.calls = <<>>
               /\ db' = db
               /\ user_data' = user_data ]_vars

\* "Да" met user data with a channel and no pending action, over a store
\* that holds posts.
C17_Witness ==
    /\ last.op = "update"
    /\ last.handler = "confirm_action"
    /\ last.reply = "start again"
    /\ conv[last.user] = "END"
    /\ user_data[last.user].pending_action = None
    /\ user_data[last.user].channel_username = Some(<<"testchan">>)
    /\ db = Collected

\* The texts a state of the conversation has a transition for, /cancel
\* included.
Recognized(state) ==
    CASE state = "MENU" ->
            {AnalyzeChannelText, ContentPlanText, AnalyzePostText, CreateSurveyText, Cancel}
      [] state = "WAITING_FOR_CONFIRMATION" -> {Da, Net, Cancel}

\* The state a menu selection leads to.
Selected(text) ==
    CASE text = AnalyzeChannelText -> "ANALYZE_CHANNEL"
      [] text = ContentPlanText -> "GENERATE_CONTENT_PLAN"
      [] text = AnalyzePostText -> "ANALYZE_POST"
      [] text = CreateSurveyText -> "CREATE_SURVEY"

\* C18: in MENU a text that is none of the four selections, and in
\* WAITING_FOR_CONFIRMATION a text that is neither "Да" nor "Нет", leaves
\* the state of the conversation, the user data and the store as they were
\* and calls nothing; whatever was written before, a selection in MENU
\* still leads to its state and "Да" or "Нет" at the confirmation still end
\* the conversation.
C18_UnrecognizedChangesNothing ==
    [][ last'.op = "update"
            => LET u == last'.user
                   text == last'.text
               IN  /\ (conv[u] \in {"MENU", "WAITING_FOR_CONFIRMATION"}
                          /\ text \notin Recognized(conv[u]))
                          => /\ conv' = conv
                             /\ user_data' = user_data
                             /\ db' = db
                             /\ last'.calls = <<>>
                   /\ (conv[u] = "MENU" /\ text \in Recognized("MENU") \ {Cancel})
                          => conv'[u] = Selected(text)
                   /\ (conv[u] = "WAITING_FOR_CONFIRMATION" /\ text \in {Da, Net})
                          => conv'[u] = "END" ]_vars

\* "abc" was written at the confirmation of a content plan and no handler
\* took it.
C18_Witness ==
    /\ last.op = "update"
    /\ last.text = <<"abc">>
    /\ last.handler = ""
    /\ conv[last.user] = "WAITING_FOR_CONFIRMATION"
    /\ user_data[last.user].pending_action = Some("generate_content_plan")

\* The replies of a run of get_comments that are kept as comments and whose
\* author is a user the store holds a row of.
KnownAuthors(store, replies) ==
    { i \in 1..Len(replies) :
        /\ ~Falsy(replies[i].message)
        /\ replies[i].from_id = Some(UserPeer)
        /\ \E k \in 1..Len(store.users) : store.users[k].tg_id = UserPeer.id }

\* C19: the store never holds two User rows of one tg_id, and a run of
\* get_comments on a resolved channel in which a reply is written by a user
\* the store already holds does not raise and persists the comment of that
\* reply.
C19_UsersUpserted ==
    [][ /\ \A i, j \in 1..Len(db'.users) :
              db'.users[i].tg_id = db'.users[j].tg_id => i = j
        /\ (last'.op = "get_comments" /\ client = "connected"
               /\ last'.channel_username = TgUsername /\ last'.post_id = 1
               /\ HasMessage(1))
              => \A i \in KnownAuthors(db, GetReplies(1, MaxReplies)) :
                    /\ ~last'.raised
                    /\ Len(db'.comments) > Len(db.comments)
                    /\ db'.comments[Len(db'.comments)].tg_id = GetReplies(1, MaxReplies)[i].id ]_vars

\* A second run of get_comments over a reply of a known user raised and
\* left the store with the comment of the first run only.
C19_SecondRunRaised ==
    /\ last.op = "get_comments"
    /\ last.raised
    /\ client = "connected"
    /\ last.channel_username = TgUsername
    /\ last.post_id = 1
    /\ Len(db.users) = 1
    /\ Len(db.comments) = 1

\* The message of the history with the given id.
MessageOf(id) == CHOOSE m \in { tg.history[i] : i \in 1..Len(tg.history) } : m.id = id

\* The reaction entries the messages of the returned records carry.
RECURSIVE ReactionEntries(_)
ReactionEntries(returned) ==
    IF returned = <<>> THEN 0
    ELSE (IF MessageOf(Head(returned).id).reactions = None THEN 0
          ELSE Len(TheValue(MessageOf(Head(returned).id).reactions)))
         + ReactionEntries(Tail(returned))

\* C20: no Post row has empty content, and a run of get_posts writes its
\* rows for messages with a body only: each record it returns and each Post
\* row it adds is of a message whose body is neither missing nor empty, and
\* the Reaction rows it adds are the reaction entries of those messages.
C20_NoEmptyPosts ==
    [][ /\ \A i \in 1..Len(db'.posts) : db'.posts[i].content # <<>>
        /\ (last'.op = "get_posts" /\ ~last'.raised)
              => /\ \A i \in 1..Len(last'.returned) :
                       /\ MessageOf(last'.returned[i].id).message \notin {None, Some(<<>>)}
                       /\ db'.posts[Len(db.posts) + i].tg_id = last'.returned[i].id
                 /\ Len(db'.posts) = Len(db.posts) + Len(last'.returned)
                 /\ Len(db'.reactions) = Len(db.reactions) + ReactionEntries(last'.returned) ]_vars

\* get_posts collected a history whose newest message has reactions and an
\* empty body: one record, one Post row and no Reaction row.
C20_Witness ==
    /\ last.op = "get_posts"
    /\ ~last.raised
    /\ Len(tg.history) = 2
    /\ tg.history[1].message = Some(<<>>)
    /\ tg.history[1].reactions # None
    /\ tg.history[2].reactions = None
    /\ Len(last.returned) = 1
    /\ Len(db.posts) = 1
    /\ db.reactions = <<>>

\* The new rows of a table.
NewRows(before, after) == SubSeq(after, Len(before) + 1, Len(after))

\* Whether a row of the given tg_id is among the rows.
HasTgId(rows, tg_id) == \E k \in 1..Len(rows) : rows[k].tg_id = tg_id

\* C21: in a run of get_comments on a resolved channel, a reply with a body
\* whose author cannot be resolved is stored as a Comment without user_id,
\* no User row is written for its author, and every later reply of the run
\* that has a body is stored as well: the run does not raise.
C21_LostAuthorStillStored ==
    [][ (last'.op = "get_comments" /\ client = "connected"
            /\ last'.channel_username = TgUsername /\ last'.post_id = 1 /\ HasMessage(1))
            => LET replies == GetReplies(1, last'.limit)
                   added   == NewRows(db.comments, db'.comments)
               IN  \A i \in 1..Len(replies) :
                      (~Falsy(replies[i].message) /\ replies[i].from_id = Some(LostPeer))
                         => /\ ~last'.raised
                            /\ \E k \in 1..Len(added) :
                                  added[k].tg_id = replies[i].id /\ added[k].user_id = None
                            /\ ~HasTgId(db'.users, LostPeer.id)
                            /\ \A j \in (i + 1)..Len(replies) :
                                  ~Falsy(replies[j].message) => HasTgId(added, replies[j].id) ]_vars

\* A run over a reply of a known user followed by a reply whose author
\* cannot be resolved raised and stored neither.
C21_LostReplyDropped ==
    /\ last.op = "get_comments"
    /\ last.raised
    /\ client = "connected"
    /\ last.limit = 2
    /\ Len(tg.replies) = 2
    /\ tg.replies[1].from_id = Some(UserPeer)
    /\ tg.replies[2].from_id = Some(LostPeer)
    /\ ~Falsy(tg.replies[2].message)
    /\ Len(db.comments) = 1

\* The messages of the history that have a body.
WithBody == SelectSeq(tg.history, LAMBDA m : m.message \notin {None, Some(<<>>)})

\* The caller whose session a step changed.
Mover == CHOOSE p \in Procs : last'.of[p] # last.of[p]

\* C22: the store readers see changes only by whole write groups.  A step
\* that changes it is the commit of a session whose loop is complete; the
\* commit of get_posts adds the Post rows of all messages with a body
\* together with all their reaction entries, the commit of
\* generate_content_plan adds one row for every day key of the answer, and
\* a loop that raised or a caller that was stopped adds nothing.  In every
\* store the Reaction rows are the reaction entries of the stored posts.
C22_WriteGroupsAtomic ==
    [][ /\ Len(db'.reactions) = ReactionEntries([i \in 1..Len(db'.posts) |-> [id |-> db'.posts[i].tg_id]])
        /\ db' # db
              => LET session == last.of[Mover] IN
                 /\ last'.of[Mover] = NoSession("committed")
                 /\ session.queue = <<>> /\ ~session.raises
                 /\ IF session.op = "get_posts"
                    THEN /\ Len(db'.posts) = Len(db.posts) + Len(WithBody)
                         /\ Len(db'.reactions) = Len(db.reactions) + ReactionEntries(WithBody)
                         /\ db'.content_plans = db.content_plans
                    ELSE /\ Len(db'.content_plans) = Len(db.content_plans)
                               + Len(JsonLoads(TheValue(session.answer.content)).items)
                         /\ db'.posts = db.posts /\ db'.reactions = db.reactions ]_vars

\* The loop of a plan raised at its second day key after the row of the
\* first was added, while the other caller had added a post and was still
\* to add its reactions: the store holds neither.
C22_Witness ==
    /\ last.op = "sessions"
    /\ last.of[1] = NoSession("raised")
    /\ last.of[2].op = "get_posts"
    /\ Len(last.of[2].pending) = 1
    /\ last.of[2].queue # <<>>
    /\ db.content_plans = <<>>
    /\ db.posts = <<>>

\* C23: two collectors that run get_posts on the same channel side by side
\* leave at most one Post row per (tg_id, channel_id), in whatever order
\* their db.add and db.commit calls interleave.
C23_ConcurrentRunsNoDuplicate ==
    last.op = "sessions"
        => \A i \in 1..Len(db.posts) :
              Cardinality({ j \in 1..Len(db.posts) :
                              /\ db.posts[j].tg_id = db.posts[i].tg_id
                              /\ db.posts[j].channel_id = db.posts[i].channel_id }) = 1

\* A collector that began over a store without posts has added the post of
\* a message the other collector has committed meanwhile, and is about to
\* commit.
C23_Overlapping ==
    /\ last.op = "sessions"
    /\ last.of[1].op = "get_posts"
    /\ last.of[1].began = 0
    /\ last.of[1].queue = <<>>
    /\ ~last.of[1].raises
    /\ last.of[1].pending # <<>>
    /\ last.of[2] = NoSession("committed")
    /\ Len(db.posts) = 1
    /\ last.of[1].pending[1].obj.tg_id = db.posts[1].tg_id

\* C24: get_channel_info, get_posts and get_comments called on a collector
\* whose client is not signed in (never started, start() failed, stopped)
\* raise SessionNotStarted, send no request to Telegram and leave the store
\* as it was.
C24_FetchNeedsSession ==
    [][ (last'.op \in {"get_channel_info", "get_posts", "get_comments"}
            /\ client # "connected")
            => /\ last'.raised
               /\ last'.exc = "SessionNotStarted"
               /\ ~last'.sent
               /\ db' = db ]_vars

\* get_posts on a collector whose start() failed sent its request and was
\* refused.
C24_RequestSentUnauthorized ==
    /\ last.op = "get_posts"
    /\ client = "unauthorized"
    /\ last.raised
    /\ last.exc = "RPCError"
    /\ last.sent

\* C25 as stated: stop() on a collector that was never started or whose
\* start() failed raises nothing, does nothing to the client and leaves the
\* collector as it was.
C25_StopWithoutStartNoOp ==
    [][ (last'.op = "stop" /\ client \in {"none", "unauthorized"})
            => /\ ~last'.raised
               /\ ~last'.disconnected
               /\ client' = client
               /\ db' = db ]_vars

\* C25: stop() on a collector that was never started or whose start()
\* failed raises nothing and writes nothing; it does nothing at all when the
\* collector was never started, and disconnects the client a failed start()
\* left behind.
C25_StopIsSafe ==
    [][ (last'.op = "stop" /\ client \in {"none", "unauthorized"})
            => /\ ~last'.raised
               /\ db' = db
               /\ client = "none" => (~last'.disconnected /\ client' = "none")
               /\ client = "unauthorized" => (last'.disconnected /\ client' = "disconnected") ]_vars

\* stop() was called on a collector whose start() had failed.
C25_Witness ==
    /\ last.op = "stop"
    /\ last.before = "unauthorized"
    /\ ~last.raised
    /\ client = "disconnected"

\* Whether a reference, when set, is the id of one of the rows.
RefersTo(ref, rows) == ref = None \/ \E k \in 1..Len(rows) : rows[k].id = TheValue(ref)

\* C26: in every store each Post's channel_id is the id of a Channel row,
\* each Comment's post_id the id of a Post row and its user_id, when set,
\* the id of a User row, and each post_id or comment_id a Reaction has set
\* the id of a Post or Comment row.
C26_ReferencesResolve ==
    /\ \A i \in 1..Len(db.posts) : RefersTo(Some(db.posts[i].channel_id), db.channels)
    /\ \A i \in 1..Len(db.comments) :
          /\ RefersTo(Some(db.comments[i].post_id), db.posts)
          /\ RefersTo(db.comments[i].user_id, db.users)
    /\ \A i \in 1..Len(db.reactions) :
          /\ RefersTo(db.reactions[i].post_id, db.posts)
          /\ RefersTo(db.reactions[i].comment_id, db.comments)

\* get_comments stored a comment of user 7 under post 1: the User row of
\* the author has id 1, and no Post row is stored.
C26_DanglingComment ==
    /\ last.op = "get_comments"
    /\ ~last.raised
    /\ db.posts = <<>>
    /\ Len(db.comments) = 1
    /\ db.comments[1].post_id = 1
    /\ db.comments[1].user_id = Some(UserPeer.id)
    /\ Len(db.users) = 1
    /\ db.users[1].id # UserPeer.id

\* C27: add_channel for a channel whose tg_id is already stored, by a
\* collector that started, answers 200 and leaves one Channel row of that
\* tg_id.
C27_ChannelUpserted ==
    [][ (last'.op = "add_channel" /\ last'.started
            /\ last'.username \in {TgUsername, <<"@">> \o TgUsername}
            /\ \E k \in 1..Len(db.channels) : db.channels[k].tg_id = TgChannelId)
            => /\ last'.status = 200
               /\ Cardinality({ k \in 1..Len(db'.channels) :
                                  db'.channels[k].tg_id = TgChannelId }) = 1 ]_vars

\* The channel was registered a second time, as "@testchan", and the
\* request was answered 500.
C27_SecondAddFails ==
    /\ last.op = "add_channel"
    /\ last.started
    /\ last.username = <<"@">> \o TgUsername
    /\ last.status = 500
    /\ Len(db.channels) = 1
    /\ db.channels[1].tg_id = TgChannelId

\* C28: a malformed input is asked for again in place: a text that is no
\* integer in ANALYZE_POST, and "@", which names no channel once the "@" is
\* dropped, in a state that awaits a channel, leave the state of the
\* conversation and the user data as they were.
C28_MalformedInputAsksAgain ==
    [][ (last'.op = "update"
            /\ \/ conv[last'.user] = "ANALYZE_POST" /\ last'.text = <<"abc">>
               \/ /\ conv[last'.user] \in {"ANALYZE_CHANNEL", "GENERATE_CONTENT_PLAN",
                                          "CREATE_SURVEY"}
                  /\ last'.text = <<"@">>)
            => /\ conv' = conv
               /\ user_data' = user_data ]_vars

\* "@" was taken for the channel of a survey: the conversation waits for
\* the confirmation with an empty channel name.
C28_EmptyChannelAccepted ==
    /\ last.op = "update"
    /\ last.handler = "process_survey_creation"
    /\ last.text = <<"@">>
    /\ conv[last.user] = "WAITING_FOR_CONFIRMATION"
    /\ user_data[last.user].channel_username = Some(<<>>)
    /\ user_data[last.user].pending_action = Some("create_survey")

\* C29: analyze, content-plan, survey and collect for a channel id that is
\* not stored, and the analysis of a post id that is not stored, are
\* answered 404.
C29_AbsentIsNotFound ==
    [][ (\/ /\ last'.op \in {"collect_channel_data", "analyze_channel",
                             "generate_content_plan", "create_survey"}
            /\ \A k \in 1..Len(db.channels) : db.channels[k].id # last'.id
         \/ /\ last'.op = "analyze_post"
            /\ \A k \in 1..Len(db.posts) : db.posts[k].id # last'.id)
            => last'.status = 404 ]_vars

\* The analysis of a post was requested of a store without posts: the
\* service was not called and the request was answered 500.
C29_AbsentPostIs500 ==
    /\ last.op = "analyze_post"
    /\ db.posts = <<>>
    /\ last.calls = <<>>
    /\ last.status = 500

\* C30: when "Да" is handled with a pending action, the bot replies and
\* the conversation ends, whatever the operation did: the reply is the
\* summary when the operation returned a dictionary without the key
\* "error", and the error message when it returned an error, returned a
\* value of another shape, raised, or was not called at all.
C30_AlwaysRepliesAndEnds ==
    [][ (last'.op = "update" /\ last'.handler = "confirm_action"
            /\ user_data[last'.user].pending_action # None)
            => /\ ~last'.raised
               /\ conv'[last'.user] = "END"
               /\ last'.reply \in {"done", "error"}
               /\ last'.reply = "done"
                     <=> /\ last'.calls # <<>>
                         /\ last'.calls[1].out.kind = "return"
                         /\ last'.calls[1].out.value.t = "dict"
                         /\ ~HasKey(last'.calls[1].out.value, <<"error">>) ]_vars

\* The analysis of the channel returned a list, and the bot replied with
\* the error message.
C30_Witness ==
    /\ last.op = "update"
    /\ last.handler = "confirm_action"
    /\ last.calls # <<>>
    /\ last.calls[1].out.kind = "return"
    /\ last.calls[1].out.value.t = "list"
    /\ last.reply = "error"
    /\ conv[last.user] = "END"

\* The reaction entries of the messages of the returned records, in order.
RECURSIVE EntriesOf(_)
EntriesOf(returned) ==
    IF returned = <<>> THEN <<>>
    ELSE (IF MessageOf(Head(returned).id).reactions = None THEN <<>>
          ELSE TheValue(MessageOf(Head(returned).id).reactions))
         \o EntriesOf(Tail(returned))

\* C31: every stored Reaction has a non-empty reaction_type, and the rows a
\* run of get_posts adds carry, entry by entry, the emoji code of the
\* descriptor when it has one, otherwise "custom_" followed by its document
\* id when it has one, otherwise the string form of the descriptor.
C31_LabelFallbackTotal ==
    [][ /\ \A i \in 1..Len(db'.reactions) : db'.reactions[i].reaction_type # <<>>
        /\ (last'.op = "get_posts" /\ ~last'.raised)
              => /\ Len(NewRows(db.reactions, db'.reactions)) = Len(EntriesOf(last'.returned))
                 /\ \A i \in 1..Len(EntriesOf(last'.returned)) :
                       LET descriptor == EntriesOf(last'.returned)[i].reaction
                           stored == db'.reactions[Len(db.reactions) + i].reaction_type
                       IN  IF "emoticon" \in DOMAIN descriptor
                           THEN stored = descriptor.emoticon
                           ELSE IF "document_id" \in DOMAIN descriptor
                           THEN stored = <<"custom_">> \o descriptor.document_id
                           ELSE stored = descriptor.repr ]_vars

\* get_posts stored the reactions of a message that carries an emoji, a
\* custom emoji and a paid reaction: one label of each tier.
C31_Witness ==
    /\ last.op = "get_posts"
    /\ ~last.raised
    /\ \E i, j, k \in 1..Len(db.reactions) :
          /\ db.reactions[i].reaction_type = <<"thumbsup">>
          /\ db.reactions[j].reaction_type = <<"custom_", "5">>
          /\ db.reactions[k].reaction_type = <<"ReactionPaid()">>

\* C32: once POST /channels/{id}/collect has collected and committed the
\* posts of a stored channel, analyze_channel_content called with the id
\* of that channel finds them: it does not return "No posts found for
\* analysis".
C32_CollectedPostsAreAnalyzed ==
    [][ (/\ last'.op = "collect_channel_data"
         /\ last'.status = 200
         /\ PostsReturned(tg.history) # <<>>)
            => AnalyzeChannelContent(db', last'.id, GoodAnalysis, "none", now).calls[1].out
                  # Return(ErrorDict("No posts found for analysis")) ]_vars

\* The posts of the channel stored under id 2 were collected and carry
\* the Telegram id of the channel; the analysis of channel 2 finds no
\* posts.
C32_PostsNotFound ==
    /\ last.op = "collect_channel_data"
    /\ last.status = 200
    /\ last.id = 2
    /\ db.channels[2].username = TgUsername
    /\ db.posts # <<>>
    /\ \A k \in 1..Len(db.posts) : db.posts[k].channel_id = TgChannelId
    /\ AnalyzeChannelContent(db, 2, GoodAnalysis, "none", now).calls[1].out
          = Return(ErrorDict("No posts found for analysis"))

\* C33: whenever generate_content_plan stores ContentPlan rows or
\* generate_survey stores a Survey row for a channel, an Analysis row of
\* type "channel_content" of that channel is stored; when the inline
\* analysis returned an error, the task stores nothing.
C33_DependentNeedsAnalysis ==
    [][ (/\ last'.op \in {"generate_content_plan", "generate_survey"}
         /\ (db'.content_plans # db.content_plans \/ db'.surveys # db.surveys))
            => /\ \E i \in 1..Len(db'.analyses) :
                     /\ db'.analyses[i].channel_id = Some(last'.calls[1].arg)
                     /\ db'.analyses[i].analysis_type = "channel_content"
               /\ Len(last'.calls) = 2
                     => ~HasKey(last'.calls[2].out.value, <<"error">>) ]_vars

\* The inline analysis found no posts, and the plan was stored for a
\* channel that has no analysis.
C33_PlanWithoutAnalysis ==
    /\ last.op = "generate_content_plan"
    /\ Len(last.calls) = 2
    /\ last.calls[2].out = Return(ErrorDict("No posts found for analysis"))
    /\ db.content_plans # <<>>
    /\ \A k \in 1..Len(db.content_plans) :
          db.content_plans[k].channel_id = last.calls[1].arg
    /\ db.analyses = <<>>

\* C34: when the loop of get_posts raises at a message of the batch, the
\* Post rows of the messages it had processed before are stored.
C34_EarlierPostsKept ==
    [][ \A p \in Procs :
          (last.of[p].op = "get_posts" /\ last'.of[p] = NoSession("raised"))
             => \A i \in 1..Len(last.of[p].pending) :
                   last.of[p].pending[i].table = "posts"
                      => HasTgId(db'.posts, last.of[p].pending[i].obj.tg_id) ]_vars

\* The loop of get_posts, running alone, has added the post of the first
\* message of the batch and its reactions and is at the second message,
\* where it can raise: no Post row is stored.
C34_NothingCommitted ==
    /\ last.op = "sessions"
    /\ last.of[1].op = "get_posts"
    /\ last.of[1].queue # <<>>
    /\ Len(last.of[1].pending) = 1 + ReactionEntries(<<[id |-> tg.history[1].id]>>)
    /\ last.of[1].pending[1].table = "posts"
    /\ last.of[1].pending[1].obj.tg_id = tg.history[1].id
    /\ tg.history[1].reactions # None
    /\ last.of[2] = NoSession("")
    /\ db.posts = <<>>

\* C35: an update of one user leaves the state of the conversation and
\* the user data of every other user as they were, and the operation the
\* bot calls when a user confirms is that of the user's own pending action.
C35_UsersIsolated ==
    [][ last'.op = "update"
            => /\ \A v \in DOMAIN conv \ {last'.user} :
                     conv'[v] = conv[v] /\ user_data'[v] = user_data[v]
               /\ (last'.handler = "confirm_action" /\ last'.calls # <<>>)
                     => last'.calls[1].op
                           = OperationOf(TheValue(user_data[last'.user].pending_action)) ]_vars

\* u1 chose the analysis of a channel after u2 had chosen the analysis of
\* a post and was asked to confirm; u1 confirmed: the channel was analysed
\* and u2 is still asked to confirm the analysis of post 1.
C35_Witness ==
    /\ last.op = "update"
    /\ last.user = "u1"
    /\ last.handler = "confirm_action"
    /\ last.calls # <<>>
    /\ last.calls[1].op = "analyze_channel_content"
    /\ conv["u1"] = "END"
    /\ "u2" \in DOMAIN conv
    /\ conv["u2"] = "WAITING_FOR_CONFIRMATION"
    /\ user_data["u2"] = [channel_username |-> None, post_id |-> Some(1),
                          pending_action |-> Some("analyze_post")]

\* C36: a text that int() accepts, zero and negative numbers included, is
\* stored as the post id in ANALYZE_POST and the conversation waits for the
\* confirmation; "Да" with the analysis of a post pending then calls
\* analyze_post_performance with the stored integer.
C36_EveryIntegerIsAnalysed ==
    [][ /\ (last'.op = "update" /\ last'.handler = "process_post_analysis"
               /\ PyInt(last'.text) # None)
              => /\ conv'[last'.user] = "WAITING_FOR_CONFIRMATION"
                 /\ user_data'[last'.user].post_id = PyInt(last'.text)
        /\ (last'.op = "update" /\ last'.handler = "confirm_action"
               /\ user_data[last'.user].pending_action = Some("analyze_post")
               /\ user_data[last'.user].post_id # None)
              => /\ last'.calls # <<>>
                 /\ last'.calls[1].op = "analyze_post_performance"
                 /\ last'.calls[1].arg = TheValue(user_data[last'.user].post_id) ]_vars

\* The post id 0 was stored and confirmed: the bot answered with the error
\* and analyze_post_performance was not called.
C36_ZeroNotAnalysed ==
    /\ last.op = "update"
    /\ last.handler = "confirm_action"
    /\ user_data[last.user] = [channel_username |-> None, post_id |-> Some(0),
                               pending_action |-> Some("analyze_post")]
    /\ last.calls = <<>>
    /\ last.reply = "error"
    /\ conv[last.user] = "END"

\* The table an operation of the service writes its result to.
StageTable(op) ==
    CASE op \in {"analyze_channel_content", "analyze_post_performance"} -> "analyses"
      [] op = "generate_content_plan" -> "content_plans"
      [] op = "generate_survey" -> "surveys"

\* C37: a call of an operation whose request to the model failed with a
\* provider error sent that one request only, returned an error, and its
\* table is as it was; the operation is not called a second time.
C37_ProviderErrorPersistsNothing ==
    [][ last'.op \in ServiceOps
            => \A i \in 1..Len(last'.calls) :
                  last'.calls[i].answer.kind = "raise"
                     => /\ last'.calls[i].llm = 1
                        /\ last'.calls[i].out.kind = "return"
                        /\ HasKey(last'.calls[i].out.value, <<"error">>)
                        /\ db'[StageTable(last'.calls[i].op)] = db[StageTable(last'.calls[i].op)]
                        /\ \A j \in 1..Len(last'.calls) :
                              last'.calls[j].op = last'.calls[i].op => j = i ]_vars

\* The inline analysis of generate_content_plan was stored, and the request
\* for the plan failed with a provider error: no ContentPlan row.
C37_Witness ==
    /\ last.op = "generate_content_plan"
    /\ Len(last.calls) = 2
    /\ last.calls[1].answer = ProviderError
    /\ last.calls[1].llm = 1
    /\ last.calls[2].out.kind = "return"
    /\ ~HasKey(last.calls[2].out.value, <<"error">>)
    /\ Len(db.analyses) = 1
    /\ db.content_plans = <<>>

\* C38: when collect_data, add_channel or collect_channel_data has
\* finished, a collector on which it called start() has been stopped.
C38_StartedIsStopped ==
    (last.op \in {"collect_data", "add_channel", "collect_channel_data"}
        /\ last.start_called)
        => last.stopped

\* add_channel started its collector, found no username in the request
\* and answered without stopping the collector.
C38_CollectorLeftRunning ==
    /\ last.op = "add_channel"
    /\ last.started
    /\ last.username = <<>>
    /\ last.start_called
    /\ ~last.stopped
    /\ last.status = 500

====
